---------------------------- MODULE Spec2Model ----------------------------
(***************************************************************************)
(* A model of the dictionary knowledge subsystem of iJMA                   *)
(* (source/src/jma_knowledge.cpp, knowledge.cpp, jma_ctype_sjis.cpp).      *)
(*                                                                         *)
(* Text is modelled as it is stored: a string is a sequence of bytes       *)
(* (0..255), a text file is the sequence of the lines std::getline reads    *)
(* from it.  Assertions are modelled as compiled in (a failed assert sets   *)
(* the variable fatal, after which the process has aborted).                *)
(***************************************************************************)
EXTENDS Integers, Sequences, FiniteSets, TLC

(***************************************************************************)
(* Bounds of the model.                                                    *)
(***************************************************************************)
\* the longest user dictionary file the model edits, in lines
MaxLines == 2
\* the most user dictionary names addUserDict registers
MaxUserDicts == 2
\* the longest sentence separator file, in lines
MaxSepLines == 2

\* the longest line of a configuration text drawn for the parser
MaxConfigLineLen == 3

\* the most lines of a stop word file
MaxStopLines == 2

\* the most bytes of a string whose first character is measured
MaxBytes == 2

(***************************************************************************)
(* Program constants.                                                      *)
(***************************************************************************)
BASE_FORM_OFFSET_DEFAULT == 6
READ_FORM_OFFSET_DEFAULT == 7
NORM_FORM_OFFSET_DEFAULT == 9
\* "N-USER"
USER_NOUN_POS_DEFAULT == <<78, 45, 85, 83, 69, 82>>
USER_NOUN_COST == -500
\* "user.bin"
BIN_USER_DICT_MEMORY_FILE == "user.bin"
ENCODE_TYPE_EUCJP == "EUC-JP"
ENCODE_TYPE_SJIS == "SHIFT-JIS"
\* the value one past the last encoding, used as "unknown"
ENCODE_TYPE_NUM == "NUM"
DEFAULT_CONFIG_ENCODE_TYPE == ENCODE_TYPE_EUCJP
EncodeTypes == {ENCODE_TYPE_EUCJP, ENCODE_TYPE_SJIS}

\* a text file or archive resource: whether it exists and the lines getline reads
NoFile == [exists |-> FALSE, lines |-> <<>>]
File(lines) == [exists |-> TRUE, lines |-> lines]

(***************************************************************************)
(* Bytes and strings.                                                      *)
(***************************************************************************)
\* isspace() in the C locale
IsSpace(c) == c \in {9, 10, 11, 12, 13, 32}

IsDigit(c) == c >= 48 /\ c <= 57

\* s.c_str()[i-1]: the byte at 1-based position i, the terminating null past the end
At(s, i) == IF i >= 1 /\ i <= Len(s) THEN s[i] ELSE 0

\* std::string::find(c, from): the first position >= from holding c, 0 for npos
RECURSIVE FindFrom(_, _, _)
FindFrom(s, c, from) ==
    IF from > Len(s) THEN 0
    ELSE IF s[from] = c THEN from
    ELSE FindFrom(s, c, from + 1)

\* line.substr(0, line.find('\r'))
CutCR(line) ==
    LET r == FindFrom(line, 13, 1)
    IN  IF r = 0 THEN line ELSE SubSeq(line, 1, r - 1)

\* the concatenation of a sequence of strings
RECURSIVE Concat(_)
Concat(ss) == IF ss = <<>> THEN <<>> ELSE Head(ss) \o Concat(Tail(ss))

\* the first position >= i of s that is not white space (Len(s)+1 when none)
RECURSIVE SkipSpace(_, _)
SkipSpace(s, i) ==
    IF i > Len(s) THEN i
    ELSE IF IsSpace(s[i]) THEN SkipSpace(s, i + 1)
    ELSE i

\* the first position >= i of s that is white space (Len(s)+1 when none)
RECURSIVE SkipWord(_, _)
SkipWord(s, i) ==
    IF i > Len(s) THEN i
    ELSE IF IsSpace(s[i]) THEN i
    ELSE SkipWord(s, i + 1)

\* the successive results of "iss >> token" on an istringstream over line
RECURSIVE ExtractTokens(_, _)
ExtractTokens(line, i) ==
    LET a == SkipSpace(line, i)
        b == SkipWord(line, a)
    IN  IF a > Len(line) THEN <<>>
        ELSE <<SubSeq(line, a, b - 1)>> \o ExtractTokens(line, b)

\* tokenizeCSV(str, compVec): compVec afterwards
RECURSIVE TokenizeFrom(_, _)
TokenizeFrom(str, i) ==
    IF i > Len(str) THEN <<>>
    ELSE LET j == FindFrom(str, 44, i)
         IN  IF j # 0
             THEN <<SubSeq(str, i, j - 1)>> \o TokenizeFrom(str, j + 1)
             ELSE <<SubSeq(str, i, Len(str))>>

tokenizeCSV(str) == TokenizeFrom(str, 1)

\* isNumber(str): non-empty and decimal digits only
isNumber(str) == str # <<>> /\ \A i \in 1..Len(str) : IsDigit(str[i])

\* the value of the decimal digits s[a..b]
RECURSIVE DigitsValue(_, _, _)
DigitsValue(s, a, b) ==
    IF b < a THEN 0 ELSE 10 * DigitsValue(s, a, b - 1) + (s[b] - 48)

\* the first position >= i of s that is not a digit
RECURSIVE SkipDigits(_, _)
SkipDigits(s, i) ==
    IF i > Len(s) THEN i
    ELSE IF IsDigit(s[i]) THEN SkipDigits(s, i + 1)
    ELSE i

\* convertFromStr<int> without "!(convertor >> ws).eof()": the int at the start
\* of the string, whatever follows it
convertFromStrPrefix(str) ==
    LET a == SkipSpace(str, 1)
        signed == At(str, a) \in {43, 45}
        d0 == IF signed THEN a + 1 ELSE a
        d1 == SkipDigits(str, d0)
        mag == DigitsValue(str, d0, d1 - 1)
    IN  IF d1 > d0 /\ d1 - d0 <= 9
        THEN IF At(str, a) = 45 THEN 0 - mag ELSE mag
        ELSE 0

\* convertFromStr<int>(str): the int a stringstream extracts when the whole string
\* is one int (white space around it allowed), and int() = 0 otherwise.  The
\* extraction fails on a value no int holds; the model reads numbers of at most
\* nine digits, all of which an int holds.
convertFromStr(str) ==
    LET a == SkipSpace(str, 1)
        signed == At(str, a) \in {43, 45}
        d0 == IF signed THEN a + 1 ELSE a
        d1 == SkipDigits(str, d0)
        mag == DigitsValue(str, d0, d1 - 1)
    IN  IF d1 > d0 /\ d1 - d0 <= 9 /\ SkipSpace(str, d1) > Len(str)
        THEN IF At(str, a) = 45 THEN 0 - mag ELSE mag
        ELSE 0

\* operator<<(ostream&, int): the decimal digits of a natural number
RECURSIVE NatToStr(_)
NatToStr(n) ==
    IF n < 10 THEN <<48 + n>> ELSE NatToStr(n \div 10) \o <<48 + (n % 10)>>

IntToStr(n) == IF n < 0 THEN <<45>> \o NatToStr(0 - n) ELSE NatToStr(n)

(***************************************************************************)
(* The character classifiers (JMA_CType).                                  *)
(***************************************************************************)
\* getByteCount of Shift-JIS with "uc[0] <= 0x80" for "uc[0] < 0x80"
getByteCountSJISWide(s, i) ==
    IF At(s, i) = 0 THEN [n |-> 0, fatal |-> FALSE]
    ELSE IF At(s, i) <= 128 THEN [n |-> 1, fatal |-> FALSE]
    ELSE IF At(s, i + 1) = 0 THEN [n |-> 0, fatal |-> TRUE]
    ELSE [n |-> 2, fatal |-> FALSE]

\* JMA_CType_SJIS::getByteCount(p), p pointing at position i of s.
\* n is the width returned; fatal says that an assertion failed instead.
getByteCountSJIS(s, i) ==
    IF At(s, i) = 0 THEN [n |-> 0, fatal |-> FALSE]
    ELSE IF At(s, i) < 128 THEN [n |-> 1, fatal |-> FALSE]
    ELSE IF At(s, i + 1) = 0 THEN [n |-> 0, fatal |-> TRUE]
    ELSE [n |-> 2, fatal |-> FALSE]

\* JMA_CType_EUCJP::getByteCount(p): 0 at the null, 1 for ASCII, 3 after the
\* single shift 0x8F, 2 otherwise; fatal when the character runs past the null
getByteCountEUCJP(s, i) ==
    IF At(s, i) = 0 THEN [n |-> 0, fatal |-> FALSE]
    ELSE IF At(s, i) < 128 THEN [n |-> 1, fatal |-> FALSE]
    ELSE IF At(s, i) = 143
         THEN IF At(s, i + 1) = 0 \/ At(s, i + 2) = 0
              THEN [n |-> 0, fatal |-> TRUE]
              ELSE [n |-> 3, fatal |-> FALSE]
    ELSE IF At(s, i + 1) = 0 THEN [n |-> 0, fatal |-> TRUE]
    ELSE [n |-> 2, fatal |-> FALSE]

\* ctype_->getByteCount(p) for the classifier of encoding type
getByteCount(type, s, i) ==
    IF type = ENCODE_TYPE_SJIS THEN getByteCountSJIS(s, i)
    ELSE getByteCountEUCJP(s, i)

(***************************************************************************)
(* std::map<string, ...>: a function whose domain is the set of its keys.   *)
(***************************************************************************)
EmptyMap == [k \in {} |-> <<>>]

MapPut(m, key, value) ==
    [k \in (DOMAIN m) \cup {key} |-> IF k = key THEN value ELSE m[k]]

(***************************************************************************)
(* The configuration parser.                                               *)
(***************************************************************************)
\* "base-form-feature-offset"
KEY_BASE_FORM == <<98, 97, 115, 101, 45, 102, 111, 114, 109, 45, 102, 101, 97, 116, 117, 114, 101, 45, 111, 102, 102, 115, 101, 116>>
\* "read-form-feature-offset"
KEY_READ_FORM == <<114, 101, 97, 100, 45, 102, 111, 114, 109, 45, 102, 101, 97, 116, 117, 114, 101, 45, 111, 102, 102, 115, 101, 116>>
\* "norm-form-feature-offset"
KEY_NORM_FORM == <<110, 111, 114, 109, 45, 102, 111, 114, 109, 45, 102, 101, 97, 116, 117, 114, 101, 45, 111, 102, 102, 115, 101, 116>>
\* "user-noun-pos"
KEY_USER_NOUN_POS == <<117, 115, 101, 114, 45, 110, 111, 117, 110, 45, 112, 111, 115>>
\* "config-charset"
KEY_CONFIG_CHARSET == <<99, 111, 110, 102, 105, 103, 45, 99, 104, 97, 114, 115, 101, 116>>

\* the last position < i of line that is not white space, 0 when none
\* (the loop "for (s2 = pos-1; (long)s2 >= 0 && isspace(line[s2]); s2--)")
RECURSIVE SkipSpaceBack(_, _)
SkipSpaceBack(line, i) ==
    IF i < 1 THEN 0
    ELSE IF IsSpace(line[i]) THEN SkipSpaceBack(line, i - 1)
    ELSE i

\* the getline loop of a parser that strips the white space on both sides of the key
RECURSIVE ParseConfigLinesTrimKey(_, _)
ParseConfigLinesTrimKey(lines, map) ==
    IF lines = <<>> THEN [ok |-> TRUE, map |-> map]
    ELSE LET line == CutCR(Head(lines))
         IN  IF line = <<>> \/ line[1] = 59 \/ line[1] = 35
             THEN ParseConfigLinesTrimKey(Tail(lines), map)
             ELSE LET pos == FindFrom(line, 61, 1)
                      s1 == SkipSpace(line, pos + 1)
                      s2 == SkipSpaceBack(line, pos - 1)
                  IN  IF pos = 0
                      THEN [ok |-> FALSE, map |-> map]
                      ELSE ParseConfigLinesTrimKey(Tail(lines),
                               MapPut(map, SubSeq(line, SkipSpace(line, 1), s2),
                                           SubSeq(line, s1, Len(line))))

\* the getline loop of loadConfig0 over the lines left, map being the caller's map
RECURSIVE ParseConfigLines(_, _)
ParseConfigLines(lines, map) ==
    IF lines = <<>> THEN [ok |-> TRUE, map |-> map]
    ELSE LET line == CutCR(Head(lines))
         IN  IF line = <<>> \/ line[1] = 59 \/ line[1] = 35
             THEN ParseConfigLines(Tail(lines), map)
             ELSE LET pos == FindFrom(line, 61, 1)
                      s1 == SkipSpace(line, pos + 1)
                      s2 == SkipSpaceBack(line, pos - 1)
                  IN  IF pos = 0
                      THEN [ok |-> FALSE, map |-> map]
                      ELSE ParseConfigLines(Tail(lines),
                               MapPut(map, SubSeq(line, 1, s2),
                                           SubSeq(line, s1, Len(line))))

\* loadConfig0(filename, map): the value returned and the caller's map afterwards;
\* resource is what dictionary_->getDict(filename) finds
loadConfig0(resource, map) ==
    IF ~resource.exists THEN [ok |-> FALSE, map |-> map]
    ELSE ParseConfigLines(resource.lines, map)

\* Knowledge::decodeEncodeType(str)
decodeEncodeType(str) ==
    IF str = <<69, 85, 67, 45, 74, 80>> THEN ENCODE_TYPE_EUCJP
    ELSE IF str = <<83, 72, 73, 70, 84, 45, 74, 73, 83>> THEN ENCODE_TYPE_SJIS
    ELSE ENCODE_TYPE_NUM

\* loadDictConfig() without the fall back to DEFAULT_CONFIG_ENCODE_TYPE
loadDictConfigNoFallBack(dicrc) ==
    LET configMap == loadConfig0(dicrc, EmptyMap).map
        has(key) == key \in DOMAIN configMap
    IN  [baseFormOffset_ |-> IF has(KEY_BASE_FORM)
                             THEN convertFromStr(configMap[KEY_BASE_FORM])
                             ELSE BASE_FORM_OFFSET_DEFAULT,
         readFormOffset_ |-> IF has(KEY_READ_FORM)
                             THEN convertFromStr(configMap[KEY_READ_FORM])
                             ELSE READ_FORM_OFFSET_DEFAULT,
         normFormOffset_ |-> IF has(KEY_NORM_FORM)
                             THEN convertFromStr(configMap[KEY_NORM_FORM])
                             ELSE NORM_FORM_OFFSET_DEFAULT,
         userNounPOS_ |-> IF has(KEY_USER_NOUN_POS)
                          THEN configMap[KEY_USER_NOUN_POS]
                          ELSE USER_NOUN_POS_DEFAULT,
         configEncodeType_ |-> IF has(KEY_CONFIG_CHARSET)
                               THEN decodeEncodeType(configMap[KEY_CONFIG_CHARSET])
                               ELSE DEFAULT_CONFIG_ENCODE_TYPE]

\* loadDictConfig(): the members it assigns
loadDictConfig(dicrc) ==
    LET configMap == loadConfig0(dicrc, EmptyMap).map
        has(key) == key \in DOMAIN configMap
        charset == IF has(KEY_CONFIG_CHARSET)
                   THEN decodeEncodeType(configMap[KEY_CONFIG_CHARSET])
                   ELSE ENCODE_TYPE_NUM
    IN  [baseFormOffset_ |-> IF has(KEY_BASE_FORM)
                             THEN convertFromStr(configMap[KEY_BASE_FORM])
                             ELSE BASE_FORM_OFFSET_DEFAULT,
         readFormOffset_ |-> IF has(KEY_READ_FORM)
                             THEN convertFromStr(configMap[KEY_READ_FORM])
                             ELSE READ_FORM_OFFSET_DEFAULT,
         normFormOffset_ |-> IF has(KEY_NORM_FORM)
                             THEN convertFromStr(configMap[KEY_NORM_FORM])
                             ELSE NORM_FORM_OFFSET_DEFAULT,
         userNounPOS_ |-> IF has(KEY_USER_NOUN_POS)
                          THEN configMap[KEY_USER_NOUN_POS]
                          ELSE USER_NOUN_POS_DEFAULT,
         configEncodeType_ |-> IF charset = ENCODE_TYPE_NUM
                               THEN DEFAULT_CONFIG_ENCODE_TYPE
                               ELSE charset]

(***************************************************************************)
(* The tables (POSTable, CharTable).  A POS table resource is a record      *)
(* [exists, ok, rows]: ok says whether it parses, rows maps an alphabetic   *)
(* POS label to its full-category string.  A character table resource is a  *)
(* record [exists, table], table a set of <<from, to>> pairs.               *)
(***************************************************************************)
\* POSTable::loadConfig(file, src, dest): the value returned and the rows afterwards
POSTableLoadConfig(resource) ==
    IF ~resource.exists \/ ~resource.ok
    THEN [ok |-> FALSE, rows |-> EmptyMap]
    ELSE [ok |-> TRUE, rows |-> resource.rows]

\* CharTable::loadConfig(file, src, dest): the value returned and the table afterwards
CharTableLoadConfig(resource) ==
    IF ~resource.exists
    THEN [ok |-> FALSE, table |-> {}]
    ELSE [ok |-> TRUE, table |-> resource.table]

\* posTable_.getPOS(posTable_.getIndexFromAlphaPOS(label), POS_FORMAT_FULL_CATEGORY);
\* found is false when the label has no index
UserNounFullPOS(rows, label) ==
    IF label \in DOMAIN rows THEN [found |-> TRUE, str |-> rows[label]]
    ELSE [found |-> FALSE, str |-> <<>>]

(***************************************************************************)
(* The user dictionary compiler.                                           *)
(***************************************************************************)
\* CTypeTokenizer::next() on word at position pos: the next character and the
\* position after it; end at the terminating null
TokenizerNext(type, word, pos) ==
    LET bc == getByteCount(type, word, pos)
    IN  [end |-> bc.n = 0,
         fatal |-> bc.fatal,
         char |-> SubSeq(word, pos, pos + bc.n - 1),
         pos |-> pos + bc.n]

\* the loop "for(int j=0; j<charCount; ++j)" of convertTxtToCSV: walks charCount
\* characters from pos, collecting them in lexicon
RECURSIVE WalkChars(_, _, _, _, _)
WalkChars(type, word, pos, charCount, lexicon) ==
    IF charCount <= 0
    THEN [valid |-> TRUE, fatal |-> FALSE, pos |-> pos, lexicon |-> lexicon]
    ELSE LET t == TokenizerNext(type, word, pos)
         IN  IF t.fatal
             THEN [valid |-> FALSE, fatal |-> TRUE, pos |-> pos, lexicon |-> lexicon]
             ELSE IF t.end
             THEN [valid |-> FALSE, fatal |-> FALSE, pos |-> pos, lexicon |-> lexicon]
             ELSE WalkChars(type, word, t.pos, charCount - 1, lexicon \o t.char)

\* the loop over compVec of convertTxtToCSV from component i on
RECURSIVE DecomposeFrom(_, _, _, _, _, _)
DecomposeFrom(type, word, pos, compVec, i, decompList) ==
    IF i > Len(compVec)
    THEN [isAllNumber |-> TRUE, isValidCharCount |-> TRUE, fatal |-> FALSE,
          pos |-> pos, decompList |-> decompList]
    ELSE IF ~isNumber(compVec[i])
    THEN [isAllNumber |-> FALSE, isValidCharCount |-> TRUE, fatal |-> FALSE,
          pos |-> pos, decompList |-> decompList]
    ELSE LET w == WalkChars(type, word, pos, convertFromStr(compVec[i]), <<>>)
         IN  IF ~w.valid
             THEN [isAllNumber |-> TRUE, isValidCharCount |-> FALSE,
                   fatal |-> w.fatal, pos |-> w.pos, decompList |-> decompList]
             ELSE DecomposeFrom(type, word, w.pos, compVec, i + 1,
                      Append(decompList, [lexicon_ |-> w.lexicon, readForm_ |-> <<>>]))

\* "for(int i=posSize; i<readFormOffset_; ++i) ost << ",*""
RECURSIVE Stars(_, _)
Stars(i, readFormOffset) ==
    IF i < readFormOffset THEN <<44, 42>> \o Stars(i + 1, readFormOffset) ELSE <<>>

\* SetReadForms giving every morpheme the first component
SetReadFormsFirst(decompList, compVec) ==
    [i \in 1..Len(decompList) |->
        [lexicon_ |-> decompList[i].lexicon_, readForm_ |-> compVec[1]]]

\* decompList with the components of compVec as the read forms
\* ("decompList[i].readForm_ = compVec[i]")
SetReadForms(decompList, compVec) ==
    [i \in 1..Len(decompList) |->
        [lexicon_ |-> decompList[i].lexicon_, readForm_ |-> compVec[i]]]

\* UnmatchedCharCount without the test that the word end is reached
UnmatchedCharCountNoEnd(isValidCharCount, restEnd) == ~isValidCharCount

\* "if(! isValidCharCount || tokenizer.next())": the counts do not match the word;
\* restEnd says that the tokenizer has reached the end of the word
UnmatchedCharCount(isValidCharCount, restEnd) == ~isValidCharCount \/ ~restEnd

\* ReadSizeMismatch that only finds too few read forms
ReadSizeMismatchFewer(compVec, decompList) == Len(compVec) < Len(decompList)

\* "if(compVec.size() != decompList.size())"
ReadSizeMismatch(compVec, decompList) == Len(compVec) # Len(decompList)

\* WholeRead that keeps the commas between the components
RECURSIVE WholeReadWithCommas(_)
WholeReadWithCommas(compVec) ==
    IF Len(compVec) <= 1 THEN Concat(compVec)
    ELSE Head(compVec) \o <<44>> \o WholeReadWithCommas(Tail(compVec))

\* "combine compVec into whole read form"
WholeRead(compVec) == Concat(compVec)

(* The iteration of the getline loop of convertTxtToCSV on one line, in the    *)
(* order of the code.  st = [count, ost, decompMap, fatal] holds the entry     *)
(* count, the text written to the CSV stream and decompMap_ so far; base is    *)
(* the stream after the base record of the line; toks are the tokens "iss >>"  *)
(* extracts; type is the classifier's encoding.                                *)

\* "continue" after an error: what the line has written stays in the stream
SkipLine(st, base) == [st EXCEPT !.ost = base]

\* the end of the iteration: the read form field, endl, ++count
AcceptLine(st, base, hasRead, compVec, decompMap) ==
    IF hasRead /\ compVec = <<>>
    THEN [st EXCEPT !.fatal = TRUE]
    ELSE [count |-> st.count + 1,
          ost |-> base \o (IF hasRead THEN <<44>> \o WholeRead(compVec)
                                      ELSE <<44, 42>>) \o <<10>>,
          decompMap |-> decompMap,
          fatal |-> FALSE]

\* the third token, tokenized to readVec: the read forms of the morphemes
ConvertReadPattern(st, base, word, decompList, readVec) ==
    IF readVec = <<>> THEN SkipLine(st, base)
    ELSE IF ReadSizeMismatch(readVec, decompList) THEN SkipLine(st, base)
    ELSE AcceptLine(st, base, TRUE, readVec,
             MapPut(st.decompMap, word, SetReadForms(decompList, readVec)))

\* after the test that the word end is reached, rest being the "tokenizer.next()"
\* of that test
ConvertCounted(st, base, toks, d, rest) ==
    IF d.isValidCharCount /\ rest.fatal THEN [st EXCEPT !.fatal = TRUE]
    ELSE IF UnmatchedCharCount(d.isValidCharCount, rest.end) THEN SkipLine(st, base)
    ELSE IF Len(toks) < 3
    THEN AcceptLine(st, base, FALSE, <<>>, MapPut(st.decompMap, toks[1], d.decompList))
    ELSE ConvertReadPattern(st, base, toks[1], d.decompList, tokenizeCSV(toks[3]))

\* after the loop over the decomposition pattern, d being its result
ConvertDecomposed(st, base, toks, d, type) ==
    IF d.fatal THEN [st EXCEPT !.fatal = TRUE]
    ELSE IF ~d.isAllNumber THEN SkipLine(st, base)
    ELSE ConvertCounted(st, base, toks, d, TokenizerNext(type, toks[1], d.pos))

\* the second token, tokenized to compVec: a decomposition pattern or a read form
ConvertPattern(st, base, toks, compVec, type) ==
    IF compVec = <<>> THEN SkipLine(st, base)
    ELSE IF ~isNumber(compVec[1]) THEN AcceptLine(st, base, TRUE, compVec, st.decompMap)
    ELSE ConvertDecomposed(st, base, toks,
             DecomposeFrom(type, toks[1], 1, compVec, 1, <<>>), type)

\* the base record "word,-1,-1,<cost>,<POS>" and the '*' placeholders, appended to ost
BaseRecord(ost, word, userNounPOS, posSize, readFormOffset) ==
    ost \o word \o <<44, 45, 49, 44, 45, 49, 44>> \o IntToStr(USER_NOUN_COST)
        \o <<44>> \o userNounPOS \o Stars(posSize, readFormOffset)

\* the line once its word is written
ConvertWord(st, base, toks, type) ==
    IF Len(toks) < 2 THEN AcceptLine(st, base, FALSE, <<>>, st.decompMap)
    ELSE ConvertPattern(st, base, toks, tokenizeCSV(toks[2]), type)

\* the line as tokens
ConvertTokens(st, toks, type, userNounPOS, posSize, readFormOffset) ==
    IF toks = <<>> THEN st
    ELSE ConvertWord(st,
             BaseRecord(st.ost, toks[1], userNounPOS, posSize, readFormOffset),
             toks, type)

\* the line without its carriage return
ConvertTrimmed(st, line, type, userNounPOS, posSize, readFormOffset) ==
    IF line = <<>> \/ line[1] = 59 \/ line[1] = 35 THEN st
    ELSE ConvertTokens(st, ExtractTokens(line, 1), type, userNounPOS, posSize,
                       readFormOffset)

\* one iteration of the getline loop of convertTxtToCSV on the line read
ConvertLine(rawLine, st, type, userNounPOS, posSize, readFormOffset) ==
    ConvertTrimmed(st, CutCR(rawLine), type, userNounPOS, posSize, readFormOffset)

\* the getline loop of convertTxtToCSV over the lines left
RECURSIVE ConvertLines(_, _, _, _, _, _)
ConvertLines(lines, st, type, userNounPOS, posSize, readFormOffset) ==
    IF lines = <<>> \/ st.fatal THEN st
    ELSE ConvertLines(Tail(lines),
             ConvertLine(Head(lines), st, type, userNounPOS, posSize, readFormOffset),
             type, userNounPOS, posSize, readFormOffset)

\* convertTxtToCSV once the POS of the user noun is looked up
ConvertWithPOS(file, st0, m, pos, posSize) ==
    IF ~pos.found THEN st0
    ELSE IF posSize = 0 THEN [st0 EXCEPT !.fatal = TRUE]
    ELSE IF ~file.exists THEN st0
    ELSE ConvertLines(file.lines, st0, m.ctype_, pos.str, posSize, m.readFormOffset_)

\* convertTxtToCSV(userDicFile, ost): st as above with count the value returned;
\* file is userDicFile on disk (it cannot be opened when it does not exist),
\* m the members read: [posRows, userNounPOS_, readFormOffset_, ctype_]
convertTxtToCSV(file, ost, decompMap, m) ==
    ConvertWithPOS(file,
        [count |-> 0, ost |-> ost, decompMap |-> decompMap, fatal |-> FALSE],
        m,
        UserNounFullPOS(m.posRows, m.userNounPOS_),
        Len(tokenizeCSV(UserNounFullPOS(m.posRows, m.userNounPOS_).str)))

\* "entryCount += convertTxtToCSV(...)": acc collects the value each call returned
AddFileResult(acc, r) ==
    [counts |-> Append(acc.counts, r.count), ost |-> r.ost,
     decompMap |-> r.decompMap, fatal |-> r.fatal]

\* the loop "for(size_t i=0; i<userDictNum; ++i)" of compileUserDict from name i on
RECURSIVE ConvertFiles(_, _, _, _, _)
ConvertFiles(names, files, i, acc, m) ==
    IF i > Len(names) \/ acc.fatal THEN acc
    ELSE ConvertFiles(names, files, i + 1,
             AddFileResult(acc,
                 convertTxtToCSV(files[names[i]], acc.ost, acc.decompMap, m)),
             m)

\* the sum of a sequence of numbers
RECURSIVE Sum(_)
Sum(ns) == IF ns = <<>> THEN 0 ELSE Head(ns) + Sum(Tail(ns))

\* a step of a call: the function called and whether it succeeded
Step(call, ok) == [call |-> call, ok |-> ok]

\* the result of compileUserDict: the value returned (ok), the members and the
\* staged dictionary afterwards, the entry counts, the steps taken, and whether
\* an assertion failed
Compiled(ok, acc, userCsv, steps) ==
    [ok |-> ok, fatal |-> acc.fatal,
     decompMap_ |-> acc.decompMap,
     binUserDic_ |-> BIN_USER_DICT_MEMORY_FILE,
     dictionary_ |-> [userBin |-> TRUE, userCsv |-> userCsv],
     counts |-> acc.counts,
     steps |-> <<Step("convertTxtToCSV", Sum(acc.counts) # 0)>> \o steps]

\* CompileConverted without the test "if(entryCount == 0)"
CompileConvertedEmpty(acc, eng) ==
    IF acc.fatal THEN Compiled(FALSE, acc, <<>>, <<>>)
    ELSE IF ~eng.copy
    THEN Compiled(FALSE, acc, <<>>, <<Step("copyStrToDict", FALSE)>>)
    ELSE Compiled(eng.compileStatus = 0, acc, acc.ost,
             <<Step("copyStrToDict", TRUE),
               Step("mecab_dict_index", eng.compileStatus = 0)>>)

\* compileUserDict() after the loop over the files, acc being its result
CompileConverted(acc, eng) ==
    IF acc.fatal \/ Sum(acc.counts) = 0 THEN Compiled(FALSE, acc, <<>>, <<>>)
    ELSE IF ~eng.copy
    THEN Compiled(FALSE, acc, <<>>, <<Step("copyStrToDict", FALSE)>>)
    ELSE Compiled(eng.compileStatus = 0, acc, acc.ost,
             <<Step("copyStrToDict", TRUE),
               Step("mecab_dict_index", eng.compileStatus = 0)>>)

\* compileUserDict that compiles once: it returns at once when the binary user
\* dictionary is already named
compileUserDictOnce(names, files, cur, m, eng) ==
    IF names = <<>> \/ cur.binUserDic_ # ""
    THEN [ok |-> names # <<>>, fatal |-> FALSE, decompMap_ |-> cur.decompMap_,
          binUserDic_ |-> cur.binUserDic_, dictionary_ |-> cur.dictionary_,
          counts |-> <<>>, steps |-> <<>>]
    ELSE CompileConverted(
             ConvertFiles(names, files, 1,
                 [counts |-> <<>>, ost |-> <<>>, decompMap |-> EmptyMap,
                  fatal |-> FALSE], m),
             eng)

\* compileUserDict without "decompMap_.clear()"
compileUserDictKeeping(names, files, cur, m, eng) ==
    IF names = <<>>
    THEN [ok |-> FALSE, fatal |-> FALSE, decompMap_ |-> cur.decompMap_,
          binUserDic_ |-> cur.binUserDic_, dictionary_ |-> cur.dictionary_,
          counts |-> <<>>, steps |-> <<>>]
    ELSE CompileConverted(
             ConvertFiles(names, files, 1,
                 [counts |-> <<>>, ost |-> <<>>, decompMap |-> cur.decompMap_,
                  fatal |-> FALSE], m),
             eng)

\* compileUserDict().  cur = [decompMap_, binUserDic_, dictionary_] are the members
\* before the call; eng = [copy, compileStatus, tagger] is what the external
\* collaborators answer when called: copyStrToDict, mecab_dict_index,
\* MeCab::createTagger
compileUserDict(names, files, cur, m, eng) ==
    IF names = <<>>
    THEN [ok |-> FALSE, fatal |-> FALSE, decompMap_ |-> cur.decompMap_,
          binUserDic_ |-> cur.binUserDic_, dictionary_ |-> cur.dictionary_,
          counts |-> <<>>, steps |-> <<>>]
    ELSE CompileConverted(
             ConvertFiles(names, files, 1,
                 [counts |-> <<>>, ost |-> <<>>, decompMap |-> EmptyMap,
                  fatal |-> FALSE], m),
             eng)

(***************************************************************************)
(* The sentence separators.                                                *)
(***************************************************************************)
\* the loop of getOccupiedBytes: "while(val & 0xffffff00) { val >>= 4; ++ret; }"
RECURSIVE OccupiedLoop(_, _)
OccupiedLoop(val, ret) ==
    IF val >= 256 THEN OccupiedLoop(val \div 16, ret + 1) ELSE ret

\* getOccupiedBytes(val): the value returned, fatal when "assert(ret > 0 && ret < 4)" fails
getOccupiedBytes(val) ==
    LET ret == OccupiedLoop(val, 1)
    IN  [n |-> ret, fatal |-> ~(ret > 0 /\ ret < 4)]

\* the big-endian packing uc[0] << 8*(n-1) | ... | uc[n-1] of the n bytes of s from i
RECURSIVE Pack(_, _, _)
Pack(s, i, n) ==
    IF n = 0 THEN 0 ELSE 256 * Pack(s, i, n - 1) + At(s, i + n - 1)

\* the getline loop of loadSentenceSeparatorConfig over the lines left
RECURSIVE LoadSeparatorLines(_, _, _)
LoadSeparatorLines(lines, type, st) ==
    IF lines = <<>> \/ st.fatal THEN st
    ELSE LET line == CutCR(Head(lines))
             bc == getByteCount(type, line, 1)
         IN  IF line = <<>> \/ line[1] = 35
             THEN LoadSeparatorLines(Tail(lines), type, st)
             ELSE IF bc.fatal \/ bc.n \notin 1..4
             THEN [st EXCEPT !.fatal = TRUE]
             ELSE LoadSeparatorLines(Tail(lines), type,
                      [st EXCEPT !.seps_[bc.n] = @ \cup {Pack(line, 1, bc.n)}])

\* loadSentenceSeparatorConfig(fileName): the value returned, seps_ afterwards, and
\* whether an assertion failed; file is fileName on disk
loadSentenceSeparatorConfig(file, type, seps) ==
    IF ~file.exists THEN [ret |-> 0, seps_ |-> seps, fatal |-> FALSE]
    ELSE [ret |-> 1,
          seps_ |-> LoadSeparatorLines(file.lines, type,
                        [seps_ |-> seps, fatal |-> FALSE]).seps_,
          fatal |-> LoadSeparatorLines(file.lines, type,
                        [seps_ |-> seps, fatal |-> FALSE]).fatal]

\* addSentenceSeparator(val): seps_ afterwards, whether val was inserted (it was
\* not there), and whether the assertion of getOccupiedBytes failed
addSentenceSeparator(val, seps) ==
    IF getOccupiedBytes(val).fatal
    THEN [ret |-> FALSE, seps_ |-> seps, fatal |-> TRUE]
    ELSE [ret |-> val \notin seps[getOccupiedBytes(val).n],
          seps_ |-> [seps EXCEPT ![getOccupiedBytes(val).n] = @ \cup {val}],
          fatal |-> FALSE]

\* isSentenceSeparator(p): the value returned; fatal when the classifier's
\* assertion or the "default:" assertion fails
isSentenceSeparator(p, type, seps) ==
    IF getByteCount(type, p, 1).fatal \/ getByteCount(type, p, 1).n \notin 1..4
    THEN [ret |-> FALSE, fatal |-> TRUE]
    ELSE [ret |-> Pack(p, 1, getByteCount(type, p, 1).n)
                      \in seps[getByteCount(type, p, 1).n],
          fatal |-> FALSE]

\* the sequence without the first of its elements that equals x
RECURSIVE RemoveFirst(_, _)
RemoveFirst(seq, x) ==
    IF seq = <<>> THEN <<>>
    ELSE IF Head(seq) = x THEN Tail(seq)
    ELSE <<Head(seq)>> \o RemoveFirst(Tail(seq), x)

\* onEncodeTypeChange without "delete ctype_"
onEncodeTypeChangeLeaking(type, k) ==
    [k EXCEPT !.ctype_ = type, !.heap = Append(@, type)]

\* onEncodeTypeChange(type): "delete ctype_; ctype_ = JMA_CType::instance(type);".
\* A classifier is named by its encoding; heap holds the classifiers created
\* with new and not deleted.
onEncodeTypeChange(type, k) ==
    [k EXCEPT !.ctype_ = type,
              !.heap = Append(RemoveFirst(@, k.ctype_), type)]

(***************************************************************************)
(* The stop words.                                                         *)
(***************************************************************************)
\* the white space character of two bytes of the encoding (the ideographic space)
WideSpace(type) ==
    IF type = ENCODE_TYPE_SJIS THEN <<129, 64>> ELSE <<161, 161>>

\* ctype_->isSpace(p) from position i on: every character up to the null is
\* white space of the classifier; fatal when a character runs past the null
RECURSIVE IsSpaceFrom(_, _, _)
IsSpaceFrom(type, p, i) ==
    LET w == getByteCount(type, p, i)
    IN  IF w.fatal THEN [ret |-> FALSE, fatal |-> TRUE]
        ELSE IF w.n = 0 THEN [ret |-> TRUE, fatal |-> FALSE]
        ELSE IF \/ w.n = 1 /\ IsSpace(p[i])
                \/ w.n = 2 /\ SubSeq(p, i, i + 1) = WideSpace(type)
             THEN IsSpaceFrom(type, p, i + w.n)
        ELSE [ret |-> FALSE, fatal |-> FALSE]

\* ctype_->isSpace(p)
isSpace(type, p) == IsSpaceFrom(type, p, 1)

\* loadStopWordDict that forgets the words loaded before
loadStopWordDictReplacing(file, stopWords) ==
    IF ~file.exists THEN [ret |-> 0, stopWords_ |-> stopWords]
    ELSE [ret |-> 1,
          stopWords_ |-> {CutCR(file.lines[i]) : i \in 1..Len(file.lines)} \ {<<>>}]

\* loadStopWordDict(fileName), file being fileName on disk: the value returned
\* and stopWords_ afterwards
loadStopWordDict(file, stopWords) ==
    IF ~file.exists THEN [ret |-> 0, stopWords_ |-> stopWords]
    ELSE [ret |-> 1,
          stopWords_ |-> stopWords \cup
              ({CutCR(file.lines[i]) : i \in 1..Len(file.lines)} \ {<<>>})]

\* isStopWord(word)
isStopWord(word, k) ==
    IF word \in k.stopWords_ THEN [ret |-> TRUE, fatal |-> FALSE]
    ELSE isSpace(k.ctype_, word)

(***************************************************************************)
(* encodeSystemDict().                                                     *)
(***************************************************************************)
\* the temporary binary files removed after the archive is written
DICT_BINARY_FILES == <<"unk.dic", "char.bin", "sys.dic", "matrix.bin">>

\* isDirExist(dirPath) where opendir and closedir exist: closedir(dir) is
\* called also when opendir returned NULL.  What closedir does with NULL is
\* not defined: sys.closedirNull says whether it returns an error (the result
\* is then false) or the process ends at the access through the pointer.
isDirExist(dir, sys) ==
    IF dir.exists THEN [ret |-> TRUE, fatal |-> FALSE]
    ELSE [ret |-> FALSE, fatal |-> sys.closedirNull = "SIGSEGV"]

\* the result of encodeSystemDict
Encoded(ret, steps, isFatal) == [ret |-> ret, steps |-> steps, fatal |-> isFatal]

\* encodeSystemDict that removes the temporary binary files before it tests
\* what JMA_Dictionary::compile returned
EncodeExistingRemoveFirst(txtDir, sys) ==
    IF sys.index # 0
    THEN Encoded(0, <<Step("mecab_dict_index", FALSE)>>, FALSE)
    ELSE Encoded(IF sys.archive THEN 1 ELSE 0,
                 <<Step("mecab_dict_index", TRUE),
                   Step("copyFile", txtDir.compound),
                   Step("compile", sys.archive)>>
                     \o [i \in 1..Len(DICT_BINARY_FILES) |->
                            Step("removeFile", sys.unlink)],
                 FALSE)

\* encodeSystemDict from the call of mecab_dict_index on
EncodeExisting(txtDir, sys) ==
    IF sys.index # 0
    THEN Encoded(0, <<Step("mecab_dict_index", FALSE)>>, FALSE)
    ELSE IF ~sys.archive
    THEN Encoded(0, <<Step("mecab_dict_index", TRUE),
                      Step("copyFile", txtDir.compound),
                      Step("compile", FALSE)>>, FALSE)
    ELSE Encoded(1, <<Step("mecab_dict_index", TRUE),
                      Step("copyFile", txtDir.compound),
                      Step("compile", TRUE)>>
                        \o [i \in 1..Len(DICT_BINARY_FILES) |->
                               Step("removeFile", sys.unlink)],
                 FALSE)

\* encodeSystemDict(txtDirPath, binDirPath): the value returned, the steps taken
\* after the two directories are found, and whether the process has ended
encodeSystemDict(txtDir, binDir, sys) ==
    IF ~isDirExist(txtDir, sys).ret
    THEN Encoded(0, <<>>, isDirExist(txtDir, sys).fatal)
    ELSE IF ~isDirExist(binDir, sys).ret
    THEN Encoded(0, <<>>, isDirExist(binDir, sys).fatal)
    ELSE EncodeExisting(txtDir, sys)

(***************************************************************************)
(* loadDict() and its steps.                                               *)
(***************************************************************************)
\* LoadTables with the kana table deciding the result as the POS table does
LoadTablesKanaDecides(posTable, arch, hasCompound) ==
    [ok |-> POSTableLoadConfig(arch.pos).ok /\ CharTableLoadConfig(arch.kana).ok,
     steps |-> <<Step("posTable", POSTableLoadConfig(arch.pos).ok),
                 Step("loadCombineRule", hasCompound),
                 Step("kanaTable", CharTableLoadConfig(arch.kana).ok),
                 Step("widthTable", CharTableLoadConfig(arch.width).ok),
                 Step("caseTable", CharTableLoadConfig(arch.case).ok)>>,
     posTable_ |-> [rows |-> POSTableLoadConfig(arch.pos).rows,
                    rules |-> IF POSTableLoadConfig(arch.pos).ok
                              THEN hasCompound ELSE posTable.rules],
     kanaTable_ |-> CharTableLoadConfig(arch.kana).table,
     widthTable_ |-> CharTableLoadConfig(arch.width).table,
     caseTable_ |-> CharTableLoadConfig(arch.case).table]

\* the table loads of loadDict: posTable_.loadConfig decides the result, the
\* combine rules and the kana, width and case tables only warn
LoadTables(posTable, arch, hasCompound) ==
    [ok |-> POSTableLoadConfig(arch.pos).ok,
     steps |-> <<Step("posTable", POSTableLoadConfig(arch.pos).ok),
                 Step("loadCombineRule", hasCompound),
                 Step("kanaTable", CharTableLoadConfig(arch.kana).ok),
                 Step("widthTable", CharTableLoadConfig(arch.width).ok),
                 Step("caseTable", CharTableLoadConfig(arch.case).ok)>>,
     posTable_ |-> [rows |-> POSTableLoadConfig(arch.pos).rows,
                    rules |-> IF POSTableLoadConfig(arch.pos).ok
                              THEN hasCompound ELSE posTable.rules],
     kanaTable_ |-> CharTableLoadConfig(arch.kana).table,
     widthTable_ |-> CharTableLoadConfig(arch.width).table,
     caseTable_ |-> CharTableLoadConfig(arch.case).table]

\* hasUserDict()
hasUserDict(k) == k.userDictNames_ # <<>>

\* createTagger(): fatal when its assertion fails, else whether
\* MeCab::createTagger returned a tagger
createTagger(k, eng) ==
    IF hasUserDict(k) /\ k.binUserDic_ = ""
    THEN [fatal |-> TRUE, tagger |-> FALSE]
    ELSE [fatal |-> FALSE, tagger |-> eng.tagger]

\* the result of loadDict(): the instance afterwards (k), the value returned (ret),
\* the steps taken, the entry counts of the user dictionary files, and whether an
\* assertion failed
Loaded(k, ret, steps, counts, isFatal) ==
    [k |-> k, ret |-> ret, steps |-> steps, counts |-> counts, fatal |-> isFatal]

\* loadDict() from "MeCab::Tagger* tagger = createTagger()" on
LoadProbe(k, steps, counts, tg) ==
    Loaded(k, IF ~tg.fatal /\ tg.tagger THEN 1 ELSE 0,
           steps \o <<Step("createTagger", tg.tagger)>>, counts, tg.fatal)

\* the members compileUserDict() has assigned
AssignCompiled(k, c) ==
    [k EXCEPT !.decompMap_ = c.decompMap_,
              !.binUserDic_ = c.binUserDic_,
              !.dictionary_ = c.dictionary_]

\* LoadCompiled that goes on to the tagger whatever compileUserDict() returned
LoadCompiledAlways(k, steps, c, eng) ==
    IF c.fatal
    THEN Loaded(AssignCompiled(k, c), 0, steps \o c.steps, c.counts, c.fatal)
    ELSE LoadProbe(AssignCompiled(k, c), steps \o c.steps, c.counts,
                   createTagger(AssignCompiled(k, c), eng))

\* loadDict() after compileUserDict(), c being its result
LoadCompiled(k, steps, c, eng) ==
    IF c.fatal \/ ~c.ok
    THEN Loaded(AssignCompiled(k, c), 0, steps \o c.steps, c.counts, c.fatal)
    ELSE LoadProbe(AssignCompiled(k, c), steps \o c.steps, c.counts,
                   createTagger(AssignCompiled(k, c), eng))

\* loadDict() from "if(hasUserDict())" on
LoadUserDict(k, steps, dsk, eng) ==
    IF hasUserDict(k)
    THEN LoadCompiled(k, steps,
             compileUserDict(k.userDictNames_, dsk.files,
                 [decompMap_ |-> k.decompMap_, binUserDic_ |-> k.binUserDic_,
                  dictionary_ |-> k.dictionary_],
                 [posRows |-> k.posTable_.rows, userNounPOS_ |-> k.userNounPOS_,
                  readFormOffset_ |-> k.readFormOffset_, ctype_ |-> k.ctype_],
                 eng),
             eng)
    ELSE LoadProbe(k, steps, <<>>, createTagger(k, eng))

\* loadDict() after the table loads, t being their result
LoadWithTables(k, steps, t, dsk, eng) ==
    IF ~t.ok
    THEN Loaded([k EXCEPT !.posTable_ = t.posTable_], 0,
                steps \o <<t.steps[1]>>, <<>>, FALSE)
    ELSE LoadUserDict([k EXCEPT !.posTable_ = t.posTable_,
                                !.kanaTable_ = t.kanaTable_,
                                !.widthTable_ = t.widthTable_,
                                !.caseTable_ = t.caseTable_],
                      steps \o t.steps, dsk, eng)

\* the members loadDictConfig() assigns
AssignConfig(k, cfg) ==
    [k EXCEPT !.baseFormOffset_ = cfg.baseFormOffset_,
              !.readFormOffset_ = cfg.readFormOffset_,
              !.normFormOffset_ = cfg.normFormOffset_,
              !.userNounPOS_ = cfg.userNounPOS_,
              !.configEncodeType_ = cfg.configEncodeType_]

\* loadDict(), k being the instance before the call
loadDict(k, arch, dsk, eng) ==
    IF ~arch.openable THEN Loaded(k, 0, <<Step("open", FALSE)>>, <<>>, FALSE)
    ELSE LoadWithTables(AssignConfig(k, loadDictConfig(arch.dicrc)),
             <<Step("open", TRUE), Step("loadDictConfig", TRUE)>>,
             LoadTables(k.posTable_, arch, dsk.compound), dsk, eng)

(***************************************************************************)
(* The state.                                                              *)
(***************************************************************************)
VARIABLES
    knowledge,  \* the members of the JMA_Knowledge instance
    archive,    \* the system dictionary archive sys.bin on disk
    disk,       \* compound.def and the user dictionary files on disk
    fatal,      \* an assertion has failed: the process has aborted
    last        \* the last call made on the instance and what it returned

vars == <<knowledge, archive, disk, fatal, last>>

env == <<archive, disk>>

\* the record of a call: its name, argument, return value, the steps it took and
\* the entry counts convertTxtToCSV returned
Call(op, arg, ret, steps, counts) ==
    [op |-> op, arg |-> arg, ret |-> ret, steps |-> steps, counts |-> counts]

NoCall == Call("none", 0, 0, <<>>, <<>>)

(***************************************************************************)
(* The inputs of the model.                                                *)
(***************************************************************************)
\* two two-byte characters, a word of the two, and an ASCII word
CharA == <<164, 162>>
CharB == <<164, 164>>
WordAB == CharA \o CharB
\* "ab"
WordAscii == <<97, 98>>

\* "AB 1,1 p,q": a decomposition with read forms
LineFull == WordAB \o <<32, 49, 44, 49, 32, 112, 44, 113>>
\* "AB 1 p": the counts sum to fewer characters than the word has
LineFew == WordAB \o <<32, 49, 32, 112>>
\* "AB 1,2 p,q": the counts run past the end of the word
LineMany == WordAB \o <<32, 49, 44, 50, 32, 112, 44, 113>>
\* "AB 2 p,q": two read forms for one morpheme
LineMismatch == WordAB \o <<32, 50, 32, 112, 44, 113>>
\* "AB p,q": a read form holding a comma
LineRead == WordAB \o <<32, 112, 44, 113>>
\* "ab p": a read form
LinePlain == WordAscii \o <<32, 112>>
\* "AB 1,x": a number, then no number
LineMixed == WordAB \o <<32, 49, 44, 120>>
\* "ab": a word only
LineWord == WordAscii
\* "#c": a comment
LineComment == <<35, 99>>
\* " ": no word
LineSpace == <<32>>
\* "ab 0,2 p,q\r": a count of zero, and a carriage return
LineZero == WordAscii \o <<32, 48, 44, 50, 32, 112, 44, 113, 13>>
\* the lines user1.txt is made of
UserLines == {LineFull, LineFew, LineMany, LineMismatch, LineRead}

\* the names addUserDict is called with
UserDictFiles == {"user1.txt", "user2.txt"}

\* "#c", "read-form-feature-offset = 3", "norm-form-feature-offset=8"
DicrcGood ==
    File(<< <<35, 99>>,
            <<114, 101, 97, 100, 45, 102, 111, 114, 109, 45, 102, 101, 97, 116, 117, 114, 101, 45, 111, 102, 102, 115, 101, 116, 32, 61, 32, 51>>,
            <<110, 111, 114, 109, 45, 102, 111, 114, 109, 45, 102, 101, 97, 116, 117, 114, 101, 45, 111, 102, 102, 115, 101, 116, 61, 56>> >>)
\* "read-form-feature-offset = 3", "oops", "base-form-feature-offset=5"
DicrcBadTail ==
    File(<< <<114, 101, 97, 100, 45, 102, 111, 114, 109, 45, 102, 101, 97, 116, 117, 114, 101, 45, 111, 102, 102, 115, 101, 116, 32, 61, 32, 51>>,
            <<111, 111, 112, 115>>,
            <<98, 97, 115, 101, 45, 102, 111, 114, 109, 45, 102, 101, 97, 116, 117, 114, 101, 45, 111, 102, 102, 115, 101, 116, 61, 53>> >>)
\* "oops", "base-form-feature-offset=5"
DicrcBadHead ==
    File(<< <<111, 111, 112, 115>>,
            <<98, 97, 115, 101, 45, 102, 111, 114, 109, 45, 102, 101, 97, 116, 117, 114, 101, 45, 111, 102, 102, 115, 101, 116, 61, 53>> >>)
\* "base-form-feature-offset=x", "config-charset=SHIFT-JIS", "user-noun-pos=N-U"
DicrcOther ==
    File(<< <<98, 97, 115, 101, 45, 102, 111, 114, 109, 45, 102, 101, 97, 116, 117, 114, 101, 45, 111, 102, 102, 115, 101, 116, 61, 120>>,
            <<99, 111, 110, 102, 105, 103, 45, 99, 104, 97, 114, 115, 101, 116, 61, 83, 72, 73, 70, 84, 45, 74, 73, 83>>,
            <<117, 115, 101, 114, 45, 110, 111, 117, 110, 45, 112, 111, 115, 61, 78, 45, 85>> >>)

\* "config-charset=UTF-8", "read-form-feature-offset=4", "read-form-feature-offset = 2"
DicrcUnknown ==
    File(<< <<99, 111, 110, 102, 105, 103, 45, 99, 104, 97, 114, 115, 101, 116, 61, 85, 84, 70, 45, 56>>,
            <<114, 101, 97, 100, 45, 102, 111, 114, 109, 45, 102, 101, 97, 116, 117, 114, 101, 45, 111, 102, 102, 115, 101, 116, 61, 52>>,
            <<114, 101, 97, 100, 45, 102, 111, 114, 109, 45, 102, 101, 97, 116, 117, 114, 101, 45, 111, 102, 102, 115, 101, 116, 32, 61, 32, 50>> >>)

\* "norm-form-feature-offset=3x", "read-form-feature-offset=4 ", "base-form-feature-offset="
DicrcPartial ==
    File(<< <<110, 111, 114, 109, 45, 102, 111, 114, 109, 45, 102, 101, 97, 116, 117, 114, 101, 45, 111, 102, 102, 115, 101, 116, 61, 51, 120>>,
            <<114, 101, 97, 100, 45, 102, 111, 114, 109, 45, 102, 101, 97, 116, 117, 114, 101, 45, 111, 102, 102, 115, 101, 116, 61, 52, 32>>,
            <<98, 97, 115, 101, 45, 102, 111, 114, 109, 45, 102, 101, 97, 116, 117, 114, 101, 45, 111, 102, 102, 115, 101, 116, 61>> >>)

DicrcSamples ==
    {NoFile, DicrcGood, DicrcBadTail, DicrcBadHead, DicrcOther, DicrcUnknown, DicrcPartial}

\* pos-id.def: "N-USER" is "N,U" and "N-U" is "N,U,X" in full
PosGood ==
    [exists |-> TRUE, ok |-> TRUE,
     rows |-> MapPut(MapPut(EmptyMap, <<78, 45, 85, 83, 69, 82>>, <<78, 44, 85>>),
                     <<78, 45, 85>>, <<78, 44, 85, 44, 88>>)]
\* pos-id.def without a user noun: "V" is "V,X"
PosNoUser ==
    [exists |-> TRUE, ok |-> TRUE, rows |-> MapPut(EmptyMap, <<86>>, <<86, 44, 88>>)]
\* pos-id.def that does not parse
PosBad == [exists |-> TRUE, ok |-> FALSE, rows |-> EmptyMap]
PosAbsent == [exists |-> FALSE, ok |-> FALSE, rows |-> EmptyMap]

PosSamples == {PosAbsent, PosBad, PosGood, PosNoUser}

\* a character table with one pair, and none
CharTableGood == [exists |-> TRUE, table |-> {<<CharA, CharB>>}]
CharTableAbsent == [exists |-> FALSE, table |-> {}]
CharTableSamples == {CharTableAbsent, CharTableGood}

\* an archive that cannot be opened, and the archives that can
NoArchive ==
    [openable |-> FALSE, dicrc |-> NoFile, pos |-> PosAbsent,
     kana |-> CharTableAbsent, width |-> CharTableAbsent, case |-> CharTableAbsent]

Archives ==
    {NoArchive} \cup
    [openable : {TRUE}, dicrc : DicrcSamples, pos : PosSamples,
     kana : CharTableSamples, width : CharTableSamples, case : CharTableSamples]

\* the answers of the external collaborators copyStrToDict, mecab_dict_index and
\* MeCab::createTagger, in the order they are called: after a failure the call
\* returns, so that the later ones answer nothing that shows
Engines ==
    {eng \in [copy : BOOLEAN, compileStatus : {0, 1}, tagger : BOOLEAN] :
        /\ ~eng.copy => eng.compileStatus = 1
        /\ eng.compileStatus = 1 => ~eng.tagger}

\* the sequences of at most n elements of S
RECURSIVE SeqsUpTo(_, _)
SeqsUpTo(S, n) ==
    IF n = 0 THEN {<<>>}
    ELSE LET shorter == SeqsUpTo(S, n - 1)
         IN  shorter \cup {Append(q, x) : q \in shorter, x \in S}

\* the characters of the separator files: ".", the two-byte full stop and a
\* three-byte character of EUC-JP
SepDot == <<46>>
SepStop == <<161, 163>>
SepThree == <<143, 162, 175>>
SepChars == {SepDot, SepStop, SepThree}

\* the lines of the separator files: a character each, one with a carriage
\* return, and the comment "#c"
SepLines == {SepDot, SepStop \o <<13>>, SepThree, <<35, 99>>}

\* the separator files: one that cannot be opened, and those of at most
\* MaxSepLines lines
SepFiles == {NoFile} \cup {File(lines) : lines \in SeqsUpTo(SepLines, MaxSepLines)}

\* the values addSentenceSeparator is called with: "!", 0x100, 0x1000, the
\* two-byte full stop 0xA1A3, and 0x10000
SepValues == {33, 256, 4096, 41379, 65536}

(***************************************************************************)
(* The state after construction.                                           *)
(***************************************************************************)
\* Knowledge::Knowledge() and JMA_Knowledge::JMA_Knowledge()
Constructed ==
    [encodeType_ |-> ENCODE_TYPE_EUCJP,
     ctype_ |-> ENCODE_TYPE_EUCJP,
     heap |-> <<ENCODE_TYPE_EUCJP>>,
     userDictNames_ |-> <<>>,
     stopWords_ |-> {},
     baseFormOffset_ |-> 0,
     readFormOffset_ |-> 0,
     normFormOffset_ |-> 0,
     userNounPOS_ |-> <<>>,
     configEncodeType_ |-> DEFAULT_CONFIG_ENCODE_TYPE,
     posTable_ |-> [rows |-> EmptyMap, rules |-> FALSE],
     kanaTable_ |-> {},
     widthTable_ |-> {},
     caseTable_ |-> {},
     binUserDic_ |-> "",
     decompMap_ |-> EmptyMap,
     dictionary_ |-> [userBin |-> FALSE, userCsv |-> <<>>],
     seps_ |-> [w \in 1..4 |-> {}]]

\* the user dictionary files of Init: one with an accepted and a rejected line,
\* one with no valid line
FixedFiles ==
    [f \in UserDictFiles |->
        IF f = "user1.txt" THEN File(<<LineFull, LineFew>>)
        ELSE File(<<LineComment, LineSpace>>)]

\* an archive whose resources are all there
GoodArchive ==
    [openable |-> TRUE, dicrc |-> DicrcGood, pos |-> PosGood,
     kana |-> CharTableGood, width |-> CharTableGood, case |-> CharTableGood]

\* any archive without dicrc, compound.def there or not, fixed user dictionary files
Init ==
    /\ knowledge = Constructed
    /\ archive \in {a \in Archives : a.dicrc = NoFile}
    /\ disk \in {[compound |-> c, files |-> FixedFiles] : c \in BOOLEAN}
    /\ fatal = FALSE
    /\ last = NoCall

\* an archive with any dicrc and a POS table, fixed user dictionary files
InitConfig ==
    /\ knowledge = Constructed
    /\ archive \in {a \in Archives : /\ a.openable
                                     /\ a.pos \in {PosGood, PosNoUser}
                                     /\ a.kana = CharTableGood
                                     /\ a.width = CharTableGood
                                     /\ a.case = CharTableGood}
    /\ disk = [compound |-> TRUE, files |-> FixedFiles]
    /\ fatal = FALSE
    /\ last = NoCall

(***************************************************************************)
(* The operations.                                                         *)
(***************************************************************************)
\* Knowledge::addUserDict(fileName)
AddUserDict(fileName) ==
    /\ ~fatal
    /\ Len(knowledge.userDictNames_) < MaxUserDicts
    /\ knowledge' = [knowledge EXCEPT !.userDictNames_ = Append(@, fileName)]
    /\ last' = Call("addUserDict", fileName, 0, <<>>, <<>>)
    /\ UNCHANGED <<env, fatal>>

\* JMA_Knowledge::loadDict(), the external collaborators answering eng
LoadDict(eng) ==
    /\ ~fatal
    /\ \E r \in {loadDict(knowledge, archive, disk, eng)} :
           /\ knowledge' = r.k
           /\ fatal' = r.fatal
           /\ last' = Call("loadDict", 0, r.ret, r.steps, r.counts)
    /\ UNCHANGED env

\* JMA_Knowledge::createTagger() called from outside
CreateTagger(eng) ==
    /\ ~fatal
    /\ \E r \in {createTagger(knowledge, eng)} :
           /\ fatal' = r.fatal
           /\ last' = Call("createTagger", 0, IF r.tagger THEN 1 ELSE 0, <<>>, <<>>)
    /\ UNCHANGED <<knowledge, env>>

\* JMA_Knowledge::loadSentenceSeparatorConfig(fileName), file being fileName on disk
LoadSentenceSeparatorConfig(file) ==
    /\ ~fatal
    /\ \E r \in {loadSentenceSeparatorConfig(file, knowledge.ctype_, knowledge.seps_)} :
           /\ knowledge' = [knowledge EXCEPT !.seps_ = r.seps_]
           /\ fatal' = r.fatal
           /\ last' = Call("loadSentenceSeparatorConfig", file, r.ret, <<>>, <<>>)
    /\ UNCHANGED env

\* JMA_Knowledge::addSentenceSeparator(val)
AddSentenceSeparator(val) ==
    /\ ~fatal
    /\ \E r \in {addSentenceSeparator(val, knowledge.seps_)} :
           /\ knowledge' = [knowledge EXCEPT !.seps_ = r.seps_]
           /\ fatal' = r.fatal
           /\ last' = Call("addSentenceSeparator", val, IF r.ret THEN 1 ELSE 0,
                           <<>>, <<>>)
    /\ UNCHANGED env

\* Knowledge::setEncodeType(type), which calls onEncodeTypeChange(type) when the
\* encoding changes
SetEncodeType(type) ==
    /\ ~fatal
    /\ knowledge' = IF knowledge.encodeType_ # type
                    THEN onEncodeTypeChange(type, [knowledge EXCEPT !.encodeType_ = type])
                    ELSE knowledge
    /\ last' = Call("setEncodeType", type, 0,
                    IF knowledge.encodeType_ # type
                    THEN <<Step("delete", TRUE), Step("instance", TRUE)>>
                    ELSE <<>>,
                    <<>>)
    /\ UNCHANGED <<env, fatal>>

Next ==
    \/ \E f \in UserDictFiles : AddUserDict(f)
    \/ \E eng \in Engines : LoadDict(eng)
    \/ \E eng \in Engines : CreateTagger(eng)

\* loadDict() over the archives that differ in their tables
Spec == Init /\ [][Next]_vars

\* loadDict() over the archives that differ in dicrc
SpecConfig == InitConfig /\ [][Next]_vars

\* the archive and the disk do not matter to the separators
InitSeparator ==
    /\ knowledge = Constructed
    /\ archive = NoArchive
    /\ disk = [compound |-> FALSE, files |-> FixedFiles]
    /\ fatal = FALSE
    /\ last = NoCall

NextSeparator ==
    \/ \E type \in EncodeTypes : SetEncodeType(type)
    \/ \E file \in SepFiles : LoadSentenceSeparatorConfig(file)
    \/ \E val \in SepValues : AddSentenceSeparator(val)

\* the sentence separators: loads of separator files and added values
SpecSeparator == InitSeparator /\ [][NextSeparator]_vars

\* the user dictionary files that differ in user1.txt: it is not there, or holds at
\* most MaxLines lines; user2.txt holds a comment, a decomposition with a count
\* of zero, a mixed pattern, a word, and a word with a read form
UserFiles ==
    {[f \in UserDictFiles |->
         IF f = "user1.txt" THEN file
         ELSE File(<<LineComment, LineZero, LineMixed, LineWord, LinePlain>>)] :
        file \in {NoFile} \cup {File(lines) : lines \in SeqsUpTo(UserLines, MaxLines)}}

\* an archive whose resources are all there, any user1.txt
InitUserDict ==
    /\ knowledge = Constructed
    /\ archive = GoodArchive
    /\ disk \in {[compound |-> TRUE, files |-> files] : files \in UserFiles}
    /\ fatal = FALSE
    /\ last = NoCall

NextUserDict ==
    \/ \E f \in UserDictFiles : AddUserDict(f)
    \/ \E eng \in Engines : LoadDict(eng)

\* loadDict() over the user dictionary files
SpecUserDict == InitUserDict /\ [][NextUserDict]_vars

\* what a loadDict() call finds: whether it follows a loadDict() that returned 1
\* with nothing between, and the words decompMap_ holds
Found ==
    [reload |-> last.op = "loadDict" /\ last.ret = 1,
     decomposed |-> DOMAIN knowledge.decompMap_]

\* JMA_Knowledge::loadDict() as LoadDict(eng), recorded with what the call found
\* as its argument
LoadDictFound(eng) ==
    /\ ~fatal
    /\ \E r \in {loadDict(knowledge, archive, disk, eng)} :
           /\ knowledge' = r.k
           /\ fatal' = r.fatal
           /\ last' = Call("loadDict", Found, r.ret, r.steps, r.counts)
    /\ UNCHANGED env

\* what user1.txt is rewritten to: it is removed, or holds no line, a
\* decomposition of AB, a read form of AB, or a decomposition of ab
RewrittenFiles ==
    {NoFile, File(<<>>), File(<<LineFull>>), File(<<LineRead>>), File(<<LineZero>>)}

\* the user rewrites user1.txt between two calls; it is recorded as the last
\* thing that happened
RewriteUserDict(file) ==
    /\ ~fatal
    /\ disk.files["user1.txt"] # file
    /\ disk' = [disk EXCEPT !.files["user1.txt"] = file]
    /\ last' = Call("rewrite", file, 0, <<>>, <<>>)
    /\ UNCHANGED <<knowledge, archive, fatal>>

\* an archive with no dicrc, a good one or one that names another user noun and
\* charset; user1.txt as rewritten, user2.txt with a word and a read form
InitReload ==
    /\ knowledge = Constructed
    /\ archive \in {[GoodArchive EXCEPT !.dicrc = d] :
                        d \in {NoFile, DicrcGood, DicrcOther}}
    /\ disk \in {[compound |-> TRUE,
                  files |-> [f \in UserDictFiles |->
                                IF f = "user1.txt" THEN file
                                ELSE File(<<LineWord, LinePlain>>)]] :
                    file \in RewrittenFiles}
    /\ fatal = FALSE
    /\ last = NoCall

NextReload ==
    \/ \E f \in UserDictFiles : AddUserDict(f)
    \/ \E eng \in Engines : LoadDictFound(eng)
    \/ \E file \in RewrittenFiles : RewriteUserDict(file)

\* loadDict() called again, the user dictionary files rewritten or not between
SpecReload == InitReload /\ [][NextReload]_vars

\* the bytes of the configuration texts: a letter, '=', a space, ';', '#' and
\* a carriage return
ConfigBytes == {97, 61, 32, 59, 35, 13}

\* the lines of at most MaxConfigLineLen of these bytes
ConfigLines == SeqsUpTo(ConfigBytes, MaxConfigLineLen)

\* "base-form-feature-offset=5"
LineBaseFive == DicrcBadHead.lines[2]

\* a dicrc of one such line, alone, before or after "base-form-feature-offset=5"
ConfigTexts ==
    UNION {{<<line>>, <<line, LineBaseFive>>, <<LineBaseFive, line>>} :
               line \in ConfigLines}

\* a good archive but for its dicrc, no user dictionary
InitParse ==
    /\ knowledge = Constructed
    /\ archive \in {[GoodArchive EXCEPT !.dicrc = File(text)] : text \in ConfigTexts}
    /\ disk = [compound |-> TRUE, files |-> FixedFiles]
    /\ fatal = FALSE
    /\ last = NoCall

NextParse == \E eng \in Engines : LoadDict(eng)

\* loadDict() parsing every short dicrc
SpecParse == InitParse /\ [][NextParse]_vars

\* JMA_Knowledge::loadStopWordDict(fileName), file being fileName on disk
LoadStopWordDict(file) ==
    /\ ~fatal
    /\ \E r \in {loadStopWordDict(file, knowledge.stopWords_)} :
           /\ knowledge' = [knowledge EXCEPT !.stopWords_ = r.stopWords_]
           /\ last' = Call("loadStopWordDict", file, r.ret, <<>>, <<>>)
    /\ UNCHANGED <<env, fatal>>

\* JMA_Knowledge::isStopWord(word)
IsStopWord(word) ==
    /\ ~fatal
    /\ \E r \in {isStopWord(word, knowledge)} :
           /\ fatal' = r.fatal
           /\ last' = Call("isStopWord", word, IF r.ret THEN 1 ELSE 0, <<>>, <<>>)
    /\ UNCHANGED <<knowledge, env>>

\* the lines of the stop word files: "a", "b" and a carriage return, a carriage
\* return, the wide space of EUC-JP, "a", a carriage return and "b"
StopLines == {<<97>>, <<98, 13>>, <<13>>, <<161, 161>>, <<97, 13, 98>>}

\* a name that no file has, and the files of at most MaxStopLines lines
StopFiles ==
    {NoFile} \cup {File(lines) : lines \in SeqsUpTo(StopLines, MaxStopLines)}

\* the words asked for: "a", "b", a space, a space and a tab, the wide space of
\* EUC-JP, the wide space of Shift-JIS, "a b"
StopQueries ==
    {<<97>>, <<98>>, <<32>>, <<32, 9>>, <<161, 161>>, <<129, 64>>, <<97, 32, 98>>}

\* a good archive, no user dictionary
InitStopWord ==
    /\ knowledge = Constructed
    /\ archive = GoodArchive
    /\ disk = [compound |-> TRUE, files |-> FixedFiles]
    /\ fatal = FALSE
    /\ last = NoCall

NextStopWord ==
    \/ \E file \in StopFiles : LoadStopWordDict(file)
    \/ \E word \in StopQueries : IsStopWord(word)
    \/ \E type \in EncodeTypes : SetEncodeType(type)
    \/ \E eng \in Engines : LoadDict(eng)

\* stop word files loaded and words asked for, under either encoding
SpecStopWord == InitStopWord /\ [][NextStopWord]_vars

\* getCType()->getByteCount(p), p a string of bytes ended by the null
GetByteCount(p) ==
    /\ ~fatal
    /\ \E r \in {getByteCount(knowledge.ctype_, p, 1)} :
           /\ fatal' = r.fatal
           /\ last' = Call("getByteCount", p, r.n, <<>>, <<>>)
    /\ UNCHANGED <<knowledge, env>>

\* the bytes measured: 0x01, 'A', 0x7F, 0x80, 0x81, 0xA1, 0xFF
ByteSamples == {1, 65, 127, 128, 129, 161, 255}

\* the strings of at most MaxBytes of these bytes
ByteStrings == SeqsUpTo(ByteSamples, MaxBytes)

NextByteCount ==
    \/ \E type \in EncodeTypes : SetEncodeType(type)
    \/ \E p \in ByteStrings : GetByteCount(p)

\* the width of the first character of short strings, under either classifier
SpecByteCount == InitSeparator /\ [][NextByteCount]_vars

\* JMA_Knowledge::isSentenceSeparator(p), p a string of bytes ended by the null
IsSentenceSeparator(p) ==
    /\ ~fatal
    /\ \E r \in {isSentenceSeparator(p, knowledge.ctype_, knowledge.seps_)} :
           /\ fatal' = r.fatal
           /\ last' = Call("isSentenceSeparator", p, IF r.ret THEN 1 ELSE 0, <<>>, <<>>)
    /\ UNCHANGED <<knowledge, env>>

\* the strings isSentenceSeparator is asked about: the empty string, "!", the
\* characters of the separator files, and "!" followed by a second byte
SentenceQueries == {<<>>, <<33>>, <<33, 46>>} \cup SepChars

\* the separator files of one line
OneLineFiles == {File(<<c>>) : c \in SepChars}

\* the values added: those of SepValues and the packed three-byte character
QueryValues == SepValues \cup {9413295}

NextSentence ==
    \/ \E type \in EncodeTypes : SetEncodeType(type)
    \/ \E file \in OneLineFiles : LoadSentenceSeparatorConfig(file)
    \/ \E val \in QueryValues : AddSentenceSeparator(val)
    \/ \E p \in SentenceQueries : IsSentenceSeparator(p)

\* separators added and loaded, and queries about characters
SpecSentence == InitSeparator /\ [][NextSentence]_vars

\* JMA_Knowledge::encodeSystemDict(txtDirPath, binDirPath), the directories
\* being what the paths name on disk and sys what the system answers
EncodeSystemDict(txtDir, binDir, sys) ==
    /\ ~fatal
    /\ \E r \in {encodeSystemDict(txtDir, binDir, sys)} :
           /\ fatal' = r.fatal
           /\ last' = Call("encodeSystemDict",
                           [txtDir |-> txtDir, binDir |-> binDir, sys |-> sys],
                           r.ret, r.steps, <<>>)
    /\ UNCHANGED <<knowledge, env>>

\* a directory: whether it exists and whether it holds compound.def
Dirs ==
    {[exists |-> FALSE, compound |-> FALSE]}
        \cup [exists : {TRUE}, compound : BOOLEAN]

\* what the system answers: closedir(NULL) returns an error or ends the
\* process, mecab_dict_index returns 0 or 1, JMA_Dictionary::compile writes the
\* archive or fails, unlink removes a file or fails
Systems ==
    [closedirNull : {"EINVAL", "SIGSEGV"}, index : {0, 1},
     archive : BOOLEAN, unlink : BOOLEAN]

NextEncode ==
    \/ \E type \in EncodeTypes : SetEncodeType(type)
    \/ \E txtDir \in Dirs, binDir \in Dirs, sys \in Systems :
           EncodeSystemDict(txtDir, binDir, sys)

\* encodeSystemDict() over directories that exist or not
SpecEncode == InitSeparator /\ [][NextEncode]_vars

(***************************************************************************)
(* The properties of loadDict() and its configuration.                     *)
(***************************************************************************)
\* the last call is a loadDict() that has returned
LoadReturned == last.op = "loadDict" /\ ~fatal

\* the steps of loadDict() whose failure is only warned about
OptionalSteps == {"loadCombineRule", "kanaTable", "widthTable", "caseTable"}

\* every step of the last call that is not optional has succeeded
RequiredStepsOk ==
    \A i \in 1..Len(last.steps) :
        last.steps[i].call \notin OptionalSteps => last.steps[i].ok

\* a line of a configuration resource that is not blank, no comment, and holds no '='
IsMalformedLine(rawLine) ==
    /\ CutCR(rawLine) # <<>>
    /\ CutCR(rawLine)[1] \notin {59, 35}
    /\ \A i \in 1..Len(CutCR(rawLine)) : CutCR(rawLine)[i] # 61

\* the resource is present and holds a malformed line
HasMalformedLine(resource) ==
    /\ resource.exists
    /\ \E i \in 1..Len(resource.lines) : IsMalformedLine(resource.lines[i])

\* C1: loadDict() returns 0 whenever pos-id.def is absent or fails to load; it
\* returns 1, with an empty kana table, when map-kana.def is absent and every
\* other step succeeds; and the absence of map-kana.def, map-width.def,
\* map-case.def or compound.def never makes it return 0: it returns 1 exactly
\* when every step other than these four has succeeded.
C1_OptionalTablesNeverFail ==
    LoadReturned =>
        /\ (~archive.pos.exists \/ ~archive.pos.ok) => last.ret = 0
        /\ (archive.openable /\ ~archive.kana.exists /\ RequiredStepsOk)
               => (last.ret = 1 /\ knowledge.kanaTable_ = {})
        /\ last.ret = 1 <=> RequiredStepsOk

\* loadDict() has returned 1 with a compiled user dictionary although map-kana.def,
\* map-width.def and compound.def are absent
C1_Witness ==
    /\ LoadReturned
    /\ archive.openable
    /\ ~archive.kana.exists
    /\ ~archive.width.exists
    /\ ~disk.compound
    /\ hasUserDict(knowledge)
    /\ last.ret = 1
    /\ knowledge.kanaTable_ = {}

\* C2: when dicrc is present but holds a line without '=' (not blank, no
\* comment), loadDict() returns 0.
C2_ParseErrorFailsLoad ==
    (LoadReturned /\ HasMalformedLine(archive.dicrc)) => last.ret = 0

\* loadDict() has returned 1 on an archive whose dicrc holds a malformed line
C2_Witness ==
    /\ LoadReturned
    /\ HasMalformedLine(archive.dicrc)
    /\ last.ret = 1

\* C3: for a configuration resource holding a line without '=' (not blank, no
\* comment), loadConfig0 returns false and the caller's map holds no entry of
\* the resource, so that loadDictConfig() assigns the default values.
C3_NoPartialMapping ==
    (LoadReturned /\ HasMalformedLine(archive.dicrc)) =>
        /\ ~loadConfig0(archive.dicrc, EmptyMap).ok
        /\ loadConfig0(archive.dicrc, EmptyMap).map = EmptyMap
        /\ knowledge.readFormOffset_ = READ_FORM_OFFSET_DEFAULT
        /\ knowledge.baseFormOffset_ = BASE_FORM_OFFSET_DEFAULT

\* loadDict() has read a dicrc whose malformed line follows an entry: loadConfig0
\* has returned false, and the entry is in the map and in the members
C3_Witness ==
    /\ LoadReturned
    /\ HasMalformedLine(archive.dicrc)
    /\ ~loadConfig0(archive.dicrc, EmptyMap).ok
    /\ KEY_READ_FORM \in DOMAIN loadConfig0(archive.dicrc, EmptyMap).map
    /\ knowledge.readFormOffset_ # READ_FORM_OFFSET_DEFAULT

(***************************************************************************)
(* The properties of the sentence separators.                              *)
(***************************************************************************)
\* the characters isSentenceSeparator returns true for
Recognised ==
    {c \in SepChars : isSentenceSeparator(c, knowledge.ctype_, knowledge.seps_).ret}

\* the characters a separator file lists, one on a line
ListedIn(file) ==
    {c \in SepChars : \E i \in 1..Len(file.lines) : CutCR(file.lines[i]) = c}

\* the last call is a loadSentenceSeparatorConfig() that has returned 1
SeparatorsLoaded ==
    last.op = "loadSentenceSeparatorConfig" /\ last.ret = 1 /\ ~fatal

\* the smallest number w of bytes with value < 256^w
BytesNeeded(value) ==
    IF value < 256 THEN 1
    ELSE IF value < 65536 THEN 2
    ELSE IF value < 16777216 THEN 3
    ELSE 4

\* C4: after loadSentenceSeparatorConfig() has loaded a file, the characters
\* isSentenceSeparator returns true for are exactly those the file lists, whatever
\* was loaded before.  (No value of SepValues packs a character of SepChars into
\* the set of its width, so a character recognised comes from a loaded file.)
C4_ReloadReplaces == SeparatorsLoaded => Recognised = ListedIn(last.arg)

\* a file has been loaded and a character it does not list is recognised
C4_Witness ==
    /\ SeparatorsLoaded
    /\ \E c \in Recognised : c \notin ListedIn(last.arg)

\* C5: addSentenceSeparator(value) fails no assertion and inserts value into the
\* set of the smallest number w of bytes with value < 256^w.
C5_SmallestWidth ==
    last.op = "addSentenceSeparator" =>
        /\ ~fatal
        /\ last.arg \in knowledge.seps_[BytesNeeded(last.arg)]

\* addSentenceSeparator(0x1000) has put the two-byte value into the set of the
\* three-byte characters
C5_Witness ==
    /\ last.op = "addSentenceSeparator"
    /\ last.arg = 4096
    /\ ~fatal
    /\ 4096 \in knowledge.seps_[3]
    /\ 4096 \notin knowledge.seps_[2]

(***************************************************************************)
(* The properties of the user dictionary compiler.  The lines are described *)
(* here by their form, apart from the conversion above.                    *)
(***************************************************************************)
\* the last call is a loadDict() that has compiled the user dictionary
CompileRan ==
    /\ last.op = "loadDict"
    /\ ~fatal
    /\ \E i \in 1..Len(last.steps) : last.steps[i].call = "convertTxtToCSV"

\* the last call has taken the step call, with the result ok
HasStep(call, ok) == \E i \in 1..Len(last.steps) : last.steps[i] = Step(call, ok)

\* the last call has called call
Called(call) == \E i \in 1..Len(last.steps) : last.steps[i].call = call

\* the tokens of a line, and whether it is an entry: not blank, no comment, a word
LineTokens(line) == ExtractTokens(CutCR(line), 1)

IsEntryLine(line) ==
    /\ CutCR(line) # <<>>
    /\ CutCR(line)[1] \notin {59, 35}
    /\ LineTokens(line) # <<>>

\* the word, the components of the second token and those of the third
WordOf(line) == LineTokens(line)[1]
PatternOf(line) == tokenizeCSV(LineTokens(line)[2])
ReadsOf(line) == tokenizeCSV(LineTokens(line)[3])

\* the characters of a word as the classifier of encoding type divides it
RECURSIVE CodePointsFrom(_, _, _)
CodePointsFrom(type, word, i) ==
    IF i > Len(word) \/ getByteCount(type, word, i).n = 0 THEN <<>>
    ELSE <<SubSeq(word, i, i + getByteCount(type, word, i).n - 1)>>
             \o CodePointsFrom(type, word, i + getByteCount(type, word, i).n)

CodePoints(type, word) == CodePointsFrom(type, word, 1)

\* the second token is a read form: its first component is no number
IsReadLine(line) ==
    /\ IsEntryLine(line)
    /\ Len(LineTokens(line)) >= 2
    /\ ~isNumber(PatternOf(line)[1])

\* the second token is a pattern of numbers n1,...,nk
IsNumericLine(line) ==
    /\ IsEntryLine(line)
    /\ Len(LineTokens(line)) >= 2
    /\ \A i \in 1..Len(PatternOf(line)) : isNumber(PatternOf(line)[i])

CountsOf(line) ==
    [i \in 1..Len(PatternOf(line)) |-> convertFromStr(PatternOf(line)[i])]

\* the numbers sum to the number of characters of the word, or not
IsDecomposition(line, type) ==
    /\ IsNumericLine(line)
    /\ Sum(CountsOf(line)) = Len(CodePoints(type, WordOf(line)))

IsUnmatchedLine(line, type) ==
    /\ IsNumericLine(line)
    /\ Sum(CountsOf(line)) # Len(CodePoints(type, WordOf(line)))

\* a decomposition whose third token has not as many components as morphemes
IsReadMismatchLine(line, type) ==
    /\ IsDecomposition(line, type)
    /\ Len(LineTokens(line)) >= 3
    /\ Len(ReadsOf(line)) # Len(PatternOf(line))

\* a decomposition that is accepted, and a line that is
IsAcceptedDecomposition(line, type) ==
    IsDecomposition(line, type) /\ ~IsReadMismatchLine(line, type)

IsAccepted(line, type) ==
    /\ IsEntryLine(line)
    /\ \/ Len(LineTokens(line)) = 1
       \/ IsReadLine(line)
       \/ IsAcceptedDecomposition(line, type)

\* the morphemes n1,...,nk (and r1,...,rk) describe
ExpectedMorphemes(line, type) ==
    [i \in 1..Len(PatternOf(line)) |->
        [lexicon_ |-> Concat(SubSeq(CodePoints(type, WordOf(line)),
                                    1 + Sum(SubSeq(CountsOf(line), 1, i - 1)),
                                    Sum(SubSeq(CountsOf(line), 1, i)))),
         readForm_ |-> IF Len(LineTokens(line)) >= 3 THEN ReadsOf(line)[i]
                       ELSE <<>>]]

\* the lines of the model's files
SampleLines ==
    UserLines \cup {LineComment, LineSpace, LineZero, LineMixed, LineWord, LinePlain}

\* the form of each of them under each encoding, worked out once
LineForms ==
    [type \in EncodeTypes |->
        [line \in SampleLines |->
            [word |-> IF IsEntryLine(line) THEN WordOf(line) ELSE <<>>,
             accepted |-> IsAccepted(line, type),
             unmatched |-> IsUnmatchedLine(line, type),
             readMismatch |-> IsReadMismatchLine(line, type),
             decomposition |-> IsAcceptedDecomposition(line, type),
             withReads |-> /\ IsAcceptedDecomposition(line, type)
                           /\ Len(LineTokens(line)) = 3,
             morphemes |-> IF IsAcceptedDecomposition(line, type)
                           THEN ExpectedMorphemes(line, type) ELSE <<>>,
             reads |-> IF Len(LineTokens(line)) >= 3 THEN ReadsOf(line) ELSE <<>>,
             readLine |-> IsReadLine(line),
             numeric |-> IsNumericLine(line),
             token |-> IF Len(LineTokens(line)) >= 2 THEN LineTokens(line)[2]
                       ELSE <<>>]]]

\* the lines of the files names[i], names[i+1], ... in the order they are read
RECURSIVE LinesFrom(_, _, _)
LinesFrom(names, files, i) ==
    IF i > Len(names) THEN <<>>
    ELSE files[names[i]].lines \o LinesFrom(names, files, i + 1)

\* the lines of the registered files, and the form of a line in the encoding
\* they are read in
AllLines == LinesFrom(knowledge.userDictNames_, disk.files, 1)
Form(line) == LineForms[knowledge.ctype_][line]

\* the file registered at place i of userDictNames_
RegisteredFile(i) == disk.files[knowledge.userDictNames_[i]]

\* the places in AllLines of the accepted decompositions of word
DecompLines(word) ==
    {p \in 1..Len(AllLines) :
        Form(AllLines[p]).decomposition /\ Form(AllLines[p]).word = word}

\* the last place of a set of places
LastOf(places) == CHOOSE p \in places : \A q \in places : q <= p

\* decompMap_ holds word exactly when a registered line is an accepted
\* decomposition of it, and then what the last such line describes
DecompEntryAsExpected(word) ==
    IF DecompLines(word) = {} THEN word \notin DOMAIN knowledge.decompMap_
    ELSE /\ word \in DOMAIN knowledge.decompMap_
         /\ knowledge.decompMap_[word] =
                Form(AllLines[LastOf(DecompLines(word))]).morphemes

\* the number of lines of a file that satisfy Counted
CountLines(file, Counted(_)) ==
    Cardinality({j \in 1..Len(file.lines) : Counted(file.lines[j])})

\* the records of a CSV text: the texts its line ends close
RECURSIVE CsvRecordsFrom(_, _)
CsvRecordsFrom(text, i) ==
    IF FindFrom(text, 10, i) = 0 THEN <<>>
    ELSE <<SubSeq(text, i, FindFrom(text, 10, i) - 1)>>
             \o CsvRecordsFrom(text, FindFrom(text, 10, i) + 1)

\* the record of the user dictionary CSV that the line at place p of AllLines
\* has closed: as many records as lines are accepted up to p
RecordOf(p) ==
    CsvRecordsFrom(knowledge.dictionary_.userCsv, 1)
        [Cardinality({q \in 1..p : Form(AllLines[q]).accepted})]

EndsWith(s, t) == Len(s) >= Len(t) /\ SubSeq(s, Len(s) - Len(t) + 1, Len(s)) = t

\* a text without its commas
WithoutCommas(text) == SelectSeq(text, LAMBDA c : c # 44)

\* the CSV text has been copied to the dictionary
CsvStored == CompileRan /\ HasStep("copyStrToDict", TRUE)

\* C6: a line "word n1,...,nk r1,...,rk" whose numbers sum to the number of
\* characters of word sets decompMap_[word] to k morphemes, the i-th holding the
\* next ni characters of word and the read form ri, whose lexicons concatenate
\* to word (the last such line of a word decides its entry), and the read form
\* field of its CSV record is r1...rk concatenated.
C6_DecompositionRecorded ==
    CompileRan =>
        \A p \in 1..Len(AllLines) :
            Form(AllLines[p]).withReads
            => /\ p = LastOf(DecompLines(Form(AllLines[p]).word))
                   => /\ Form(AllLines[p]).word \in DOMAIN knowledge.decompMap_
                      /\ knowledge.decompMap_[Form(AllLines[p]).word]
                             = Form(AllLines[p]).morphemes
                      /\ Len(knowledge.decompMap_[Form(AllLines[p]).word])
                             = Len(Form(AllLines[p]).reads)
                      /\ Concat([i \in 1..Len(Form(AllLines[p]).reads) |->
                             knowledge.decompMap_[Form(AllLines[p]).word][i].lexicon_])
                             = Form(AllLines[p]).word
               /\ CsvStored
                   => EndsWith(RecordOf(p),
                          <<44>> \o Concat(Form(AllLines[p]).reads))

\* "AB 1,1 p,q" has been compiled as the last line: AB is A with p and B with q,
\* and the CSV ends with the read form pq
C6_Witness ==
    /\ CsvStored
    /\ AllLines # <<>>
    /\ AllLines[Len(AllLines)] = LineFull
    /\ WordAB \in DOMAIN knowledge.decompMap_
    /\ knowledge.decompMap_[WordAB]
           = <<[lexicon_ |-> CharA, readForm_ |-> <<112>>],
               [lexicon_ |-> CharB, readForm_ |-> <<113>>]>>
    /\ EndsWith(knowledge.dictionary_.userCsv, <<44, 112, 113, 10>>)

C8_ReadMismatchSkipped ==
    CompileRan =>
        /\ \A i \in 1..Len(knowledge.userDictNames_) :
               (\E j \in 1..Len(RegisteredFile(i).lines) :
                    Form(RegisteredFile(i).lines[j]).readMismatch)
               => last.counts[i] =
                      CountLines(RegisteredFile(i),
                          LAMBDA l : ~Form(l).readMismatch /\ Form(l).accepted)
        /\ \A p \in 1..Len(AllLines) :
               Form(AllLines[p]).readMismatch
               => DecompEntryAsExpected(Form(AllLines[p]).word)

\* user1.txt with "AB 2 p,q" and then "AB p,q" has been compiled: one entry, the
\* second line, and AB is not decomposed
C8_Witness ==
    /\ CsvStored
    /\ knowledge.userDictNames_ = <<"user1.txt">>
    /\ disk.files["user1.txt"].lines = <<LineMismatch, LineRead>>
    /\ last.counts = <<1>>
    /\ WordAB \notin DOMAIN knowledge.decompMap_
    /\ EndsWith(knowledge.dictionary_.userCsv, <<44, 112, 113, 10>>)

\* decompMap_ holds word only when a registered line gives word a pattern of
\* numbers
DecomposedByNumbers(word) ==
    word \in DOMAIN knowledge.decompMap_
    => \E q \in 1..Len(AllLines) :
           Form(AllLines[q]).numeric /\ Form(AllLines[q]).word = word

\* C9 as stated: a line whose second token is no number creates no decompMap_
\* entry, and the read form field of its CSV record is that token unchanged.
C9_ReadFormIsToken ==
    CompileRan =>
        \A p \in 1..Len(AllLines) :
            Form(AllLines[p]).readLine
            => /\ DecomposedByNumbers(Form(AllLines[p]).word)
               /\ CsvStored
                   => EndsWith(RecordOf(p), <<44>> \o Form(AllLines[p]).token)

\* C9 amended: a line whose second token is no number creates no decompMap_
\* entry, and the read form field of its CSV record is that token without its
\* commas: the token itself when it holds none.
C9_ReadFormIsTokenWithoutCommas ==
    CompileRan =>
        \A p \in 1..Len(AllLines) :
            Form(AllLines[p]).readLine
            => /\ DecomposedByNumbers(Form(AllLines[p]).word)
               /\ CsvStored
                   => /\ EndsWith(RecordOf(p),
                          <<44>> \o WithoutCommas(Form(AllLines[p]).token))
                      /\ (\A i \in 1..Len(Form(AllLines[p]).token) :
                              Form(AllLines[p]).token[i] # 44)
                          => EndsWith(RecordOf(p),
                                 <<44>> \o Form(AllLines[p]).token)

\* "AB p,q" has been compiled: the CSV ends with the read form pq, and nothing
\* is decomposed
C9_Witness ==
    /\ CsvStored
    /\ AllLines = <<LineRead>>
    /\ knowledge.decompMap_ = EmptyMap
    /\ EndsWith(knowledge.dictionary_.userCsv, <<42, 44, 112, 113, 10>>)

\* C10: convertTxtToCSV returns for each registered file the number of its
\* accepted lines; when they sum to zero the compilation fails, loadDict()
\* returns 0 and neither copyStrToDict nor mecab_dict_index is called, and
\* otherwise the compilation goes on to copyStrToDict.
C10_CountsAcceptedLines ==
    CompileRan =>
        /\ Len(last.counts) = Len(knowledge.userDictNames_)
        /\ \A i \in 1..Len(knowledge.userDictNames_) :
               last.counts[i] =
                   CountLines(RegisteredFile(i), LAMBDA l : Form(l).accepted)
        /\ IF Sum(last.counts) = 0
           THEN /\ last.ret = 0
                /\ HasStep("convertTxtToCSV", FALSE)
                /\ ~Called("copyStrToDict")
                /\ ~Called("mecab_dict_index")
           ELSE /\ HasStep("convertTxtToCSV", TRUE)
                /\ Called("copyStrToDict")

\* user1.txt, registered twice, holds only lines that are rejected: the
\* compilation has failed without a call of the compiler
C10_Witness ==
    /\ CompileRan
    /\ knowledge.userDictNames_ = <<"user1.txt", "user1.txt">>
    /\ disk.files["user1.txt"].lines = <<LineFew, LineMismatch>>
    /\ last.counts = <<0, 0>>
    /\ last.ret = 0
    /\ ~Called("mecab_dict_index")

(***************************************************************************)
(* The properties of the steps of loadDict().                              *)
(***************************************************************************)
\* the steps of loadDict() in the order of the code
StepOrder ==
    <<"open", "loadDictConfig", "posTable", "loadCombineRule", "kanaTable",
      "widthTable", "caseTable", "convertTxtToCSV", "copyStrToDict",
      "mecab_dict_index", "createTagger">>

\* the place of a step in that order
Rank(call) == CHOOSE r \in 1..Len(StepOrder) : StepOrder[r] = call

\* the steps of the user dictionary compilation, and those whose failure fails
\* the load
CompileSteps == {"convertTxtToCSV", "copyStrToDict", "mecab_dict_index"}
HardSteps == {"open", "posTable", "createTagger"} \cup CompileSteps

\* C11: the steps of a loadDict() call run in the order open, configuration, POS
\* table, soft tables, user dictionary compilation (only with a registered user
\* dictionary), tagger probe, none left out before the last one taken; a hard
\* step that fails is the last step and the call returns 0; the probe runs only
\* after open and the POS table succeeded and, with a user dictionary, after the
\* conversion gave an entry and the external compilation returned zero; and the
\* call returns 1 only when the probe returned a tagger.
C11_StepsInOrder ==
    LoadReturned =>
        /\ \A i, j \in 1..Len(last.steps) :
               i < j => Rank(last.steps[i].call) < Rank(last.steps[j].call)
        /\ \A i \in 1..Len(last.steps) :
               \A r \in 1..(Rank(last.steps[i].call) - 1) :
                   \/ Called(StepOrder[r])
                   \/ StepOrder[r] \in CompileSteps /\ ~hasUserDict(knowledge)
        /\ \A i \in 1..Len(last.steps) :
               last.steps[i].call \in CompileSteps => hasUserDict(knowledge)
        /\ \A i \in 1..Len(last.steps) :
               (last.steps[i].call \in HardSteps /\ ~last.steps[i].ok)
               => (i = Len(last.steps) /\ last.ret = 0)
        /\ Called("createTagger")
               => /\ HasStep("open", TRUE)
                  /\ HasStep("posTable", TRUE)
                  /\ hasUserDict(knowledge)
                         => /\ HasStep("convertTxtToCSV", TRUE)
                            /\ HasStep("mecab_dict_index", TRUE)
        /\ last.ret = 1 => HasStep("createTagger", TRUE)

\* a loadDict() with a registered user dictionary has taken all eleven steps and
\* returned 1
C11_Witness ==
    /\ LoadReturned
    /\ hasUserDict(knowledge)
    /\ Len(last.steps) = Len(StepOrder)
    /\ last.ret = 1

(***************************************************************************)
(* The properties of loadDict() called again.                              *)
(***************************************************************************)
\* what a caller observes of the configuration and the decompositions
Observable ==
    [baseFormOffset_ |-> knowledge.baseFormOffset_,
     readFormOffset_ |-> knowledge.readFormOffset_,
     normFormOffset_ |-> knowledge.normFormOffset_,
     userNounPOS_ |-> knowledge.userNounPOS_,
     configEncodeType_ |-> knowledge.configEncodeType_,
     decompMap_ |-> knowledge.decompMap_]

\* the steps whose result the external collaborators decide
ExternalSteps == {"copyStrToDict", "mecab_dict_index", "createTagger"}

\* C12: a loadDict() that follows a loadDict() that returned 1, with nothing
\* between, takes the steps of the first call in the same order, each step that
\* the files decide with the same result; it returns 1 again exactly when the
\* external collaborators answer as before; and it leaves the feature offsets,
\* the user noun POS, the config charset and decompMap_ as the first call did.
C12_ReloadSame ==
    [][(last'.op = "loadDict" /\ last'.arg.reload /\ ~fatal')
       => /\ Observable' = Observable
          /\ Len(last'.steps) <= Len(last.steps)
          /\ \A i \in 1..Len(last'.steps) :
                 /\ last'.steps[i].call = last.steps[i].call
                 /\ last'.steps[i].call \notin ExternalSteps
                        => last'.steps[i] = last.steps[i]
          /\ last'.ret = last.ret <=> last'.steps = last.steps]_vars

\* a second loadDict() has returned 1 as the first did, with a dicrc that sets
\* the read form offset and a user dictionary that decomposes AB
C12_Witness ==
    /\ last.op = "loadDict"
    /\ last.arg.reload
    /\ last.ret = 1
    /\ ~fatal
    /\ knowledge.readFormOffset_ = 3
    /\ WordAB \in DOMAIN knowledge.decompMap_

\* C13: after a loadDict() that compiled the user dictionary, decompMap_ holds
\* exactly the entries the lines of the registered files, as they are now,
\* produce, whatever it held before; and decompMap_ is empty as long as no user
\* dictionary is registered.
C13_DecompMapRebuilt ==
    /\ CompileRan =>
           /\ \A word \in {WordAB, WordAscii} : DecompEntryAsExpected(word)
           /\ DOMAIN knowledge.decompMap_ \subseteq {WordAB, WordAscii}
    /\ ~hasUserDict(knowledge) => knowledge.decompMap_ = EmptyMap

\* a compilation has run on an instance that held a decomposition of AB, and AB
\* is decomposed no more
C13_Witness ==
    /\ CompileRan
    /\ WordAB \in last.arg.decomposed
    /\ WordAB \notin DOMAIN knowledge.decompMap_

(***************************************************************************)
(* The properties of the settings loadDictConfig() assigns.                *)
(***************************************************************************)
\* loadDict() has returned after its configuration step
ConfigStepDone ==
    /\ LoadReturned
    /\ \E i \in 1..Len(last.steps) : last.steps[i].call = "loadDictConfig"

\* the line is blank or a comment
IsIgnoredLine(rawLine) ==
    CutCR(rawLine) = <<>> \/ CutCR(rawLine)[1] \in {59, 35}

\* the key and the value of a line with '=': what precedes the first '=' without
\* the white space at its end, what follows it without the white space at its
\* start
EntryKey(rawLine) ==
    LET line == CutCR(rawLine)
    IN  SubSeq(line, 1, SkipSpaceBack(line, FindFrom(line, 61, 1) - 1))

EntryValue(rawLine) ==
    LET line == CutCR(rawLine)
    IN  SubSeq(line, SkipSpace(line, FindFrom(line, 61, 1) + 1), Len(line))

\* the lines of the resource that precede its first malformed line
LinesRead(resource) ==
    IF ~resource.exists THEN <<>>
    ELSE LET bad == {i \in 1..Len(resource.lines) :
                        IsMalformedLine(resource.lines[i])}
         IN  IF bad = {} THEN resource.lines
             ELSE SubSeq(resource.lines, 1,
                         (CHOOSE i \in bad : \A j \in bad : i <= j) - 1)

\* whether the lines give the key a value, and the value the last of them gives
Configured(lines, key) ==
    LET at == {i \in 1..Len(lines) : /\ ~IsIgnoredLine(lines[i])
                                     /\ ~IsMalformedLine(lines[i])
                                     /\ EntryKey(lines[i]) = key}
    IN  [present |-> at # {},
         value |-> IF at = {} THEN <<>>
                   ELSE EntryValue(lines[CHOOSE i \in at : \A j \in at : j <= i])]

\* the value holds no decimal digit
NoDigit(value) == \A i \in 1..Len(value) : ~IsDigit(value[i])

\* the offset keys and the members they set
OffsetOf ==
    MapPut(MapPut(MapPut(EmptyMap,
        KEY_BASE_FORM, knowledge.baseFormOffset_),
        KEY_READ_FORM, knowledge.readFormOffset_),
        KEY_NORM_FORM, knowledge.normFormOffset_)

\* the members have the default values when dicrc is absent
DefaultsWhenAbsent ==
    ~archive.dicrc.exists =>
        /\ knowledge.baseFormOffset_ = 6
        /\ knowledge.readFormOffset_ = 7
        /\ knowledge.normFormOffset_ = 9
        /\ knowledge.userNounPOS_ = <<78, 45, 85, 83, 69, 82>>
        /\ knowledge.configEncodeType_ = ENCODE_TYPE_EUCJP

\* the user noun POS and the config charset follow the lines: the POS is the
\* value, the charset the type decodeEncodeType finds for the value, EUC-JP when
\* it finds none
TextSettingsFollow(lines) ==
    /\ Configured(lines, KEY_USER_NOUN_POS).present
           => knowledge.userNounPOS_ = Configured(lines, KEY_USER_NOUN_POS).value
    /\ Configured(lines, KEY_CONFIG_CHARSET).present
           => knowledge.configEncodeType_ =
                  IF decodeEncodeType(Configured(lines, KEY_CONFIG_CHARSET).value)
                         = ENCODE_TYPE_NUM
                  THEN ENCODE_TYPE_EUCJP
                  ELSE decodeEncodeType(Configured(lines, KEY_CONFIG_CHARSET).value)

ParsedDicrc == loadConfig0(archive.dicrc, EmptyMap)

\* every line of the text that is not empty and no comment holds a '='
EveryLineHasEquals(lines) ==
    \A i \in 1..Len(lines) :
        \/ lines[i] = <<>>
        \/ lines[i][1] \in {59, 35}
        \/ \E j \in 1..Len(lines[i]) : lines[i][j] = 61

\* the pairs of the map written as lines "key=value", one pair on a line
RECURSIVE Serialize(_)
Serialize(map) ==
    IF DOMAIN map = {} THEN <<>>
    ELSE LET key == CHOOSE k \in DOMAIN map : TRUE
         IN  <<key \o <<61>> \o map[key]>>
                 \o Serialize([k \in DOMAIN map \ {key} |-> map[k]])

\* C15: when every line of dicrc that is not empty and no comment holds a '=',
\* the map loadConfig0 builds from it, written as "key=value" lines and parsed
\* again, gives the same map, and that second parse succeeds.
C15_RoundTrip ==
    (ConfigStepDone /\ EveryLineHasEquals(archive.dicrc.lines)) =>
        /\ loadConfig0(File(Serialize(ParsedDicrc.map)), EmptyMap).ok
        /\ loadConfig0(File(Serialize(ParsedDicrc.map)), EmptyMap).map
               = ParsedDicrc.map

\* loadDict() has parsed a dicrc of two entries, one of them with an empty key
\* and a value that is not empty
C15_Witness ==
    /\ ConfigStepDone
    /\ EveryLineHasEquals(archive.dicrc.lines)
    /\ ParsedDicrc.ok
    /\ Cardinality(DOMAIN ParsedDicrc.map) = 2
    /\ <<>> \in DOMAIN ParsedDicrc.map
    /\ ParsedDicrc.map[<<>>] # <<>>
    /\ knowledge.baseFormOffset_ = 5

\* the line is blank (white space only, a carriage return included) or its
\* first character is ';' or '#'
IsBlankOrComment(rawLine) ==
    \/ \A i \in 1..Len(rawLine) : IsSpace(rawLine[i])
    \/ rawLine[1] \in {59, 35}

\* the sequence without its i-th element
Without(seq, i) == SubSeq(seq, 1, i - 1) \o SubSeq(seq, i + 1, Len(seq))

\* C16: a blank line, and a line whose first character is ';' or '#', is
\* ignored by the parser: the parse of dicrc returns what the parse of dicrc
\* without that line returns, and builds the same map.
C16_BlankAndCommentIgnored ==
    ConfigStepDone =>
        \A i \in 1..Len(archive.dicrc.lines) :
            IsBlankOrComment(archive.dicrc.lines[i])
                => ParsedDicrc = loadConfig0(File(Without(archive.dicrc.lines, i)),
                                             EmptyMap)

\* loadDict() has parsed a dicrc whose first line is one space and whose second
\* line sets the base form offset to 5: the parse has failed, the offset is 6
C16_Witness ==
    /\ ConfigStepDone
    /\ archive.dicrc.lines = << <<32>>, LineBaseFive >>
    /\ ~ParsedDicrc.ok
    /\ ParsedDicrc.map = EmptyMap
    /\ knowledge.baseFormOffset_ = BASE_FORM_OFFSET_DEFAULT

(***************************************************************************)
(* The properties of the stop words.                                       *)
(***************************************************************************)
\* the words a stop word file gives: its lines up to their first carriage
\* return, those of them that are not empty
RECURSIVE WordsOfLines(_)
WordsOfLines(lines) ==
    IF lines = <<>> THEN {}
    ELSE LET r == FindFrom(Head(lines), 13, 1)
             word == IF r = 0 THEN Head(lines) ELSE SubSeq(Head(lines), 1, r - 1)
         IN  (IF word = <<>> THEN {} ELSE {word}) \cup WordsOfLines(Tail(lines))

C18_OneClassifier ==
    /\ [](/\ knowledge.heap = <<knowledge.encodeType_>>
          /\ knowledge.ctype_ = knowledge.encodeType_)
    /\ [][last'.op = "setEncodeType" =>
              IF last'.arg # knowledge.encodeType_
              THEN /\ knowledge'.encodeType_ = last'.arg
                   /\ last'.steps = <<Step("delete", TRUE), Step("instance", TRUE)>>
              ELSE /\ knowledge' = knowledge
                   /\ last'.steps = <<>>]_vars

\* setEncodeType has changed the encoding back to EUC-JP: the classifier of
\* Shift-JIS is deleted, that of EUC-JP is the only one
C18_Witness ==
    /\ last.op = "setEncodeType"
    /\ last.arg = ENCODE_TYPE_EUCJP
    /\ last.steps # <<>>
    /\ knowledge.heap = <<ENCODE_TYPE_EUCJP>>
    /\ knowledge.ctype_ = ENCODE_TYPE_EUCJP

(***************************************************************************)
(* The properties of the Shift-JIS classifier.                             *)
(***************************************************************************)
\* getByteCount of the Shift-JIS classifier has been called
MeasuredSJIS ==
    last.op = "getByteCount" /\ knowledge.ctype_ = ENCODE_TYPE_SJIS

\* C19: under the Shift-JIS classifier getByteCount(p) returns 0 when p points
\* at the null, 1 when the first byte is below 0x80, 2 when the first byte is
\* 0x80 or more and a byte follows it; when the first byte is 0x80 or more and
\* the null follows it, the assertion fails and no width is returned.
C19_ByteCountSJIS ==
    MeasuredSJIS =>
        /\ last.arg = <<>> => (last.ret = 0 /\ ~fatal)
        /\ (last.arg # <<>> /\ last.arg[1] < 128) => (last.ret = 1 /\ ~fatal)
        /\ (Len(last.arg) >= 2 /\ last.arg[1] >= 128) => (last.ret = 2 /\ ~fatal)
        /\ (Len(last.arg) = 1 /\ last.arg[1] >= 128) => fatal

\* the first byte 0x80 followed by the null has failed the assertion of the
\* Shift-JIS classifier
C19_Witness ==
    /\ MeasuredSJIS
    /\ last.arg = <<128>>
    /\ fatal

(***************************************************************************)
(* The properties of encodeSystemDict().                                   *)
(***************************************************************************)
\* encodeSystemDict was called with a directory that does not exist
EncodedMissingDir ==
    /\ last.op = "encodeSystemDict"
    /\ ~last.arg.txtDir.exists \/ ~last.arg.binDir.exists

\* C20: encodeSystemDict(txtDir, binDir) returns 0 when txtDir or binDir does
\* not exist, and has then called neither mecab_dict_index nor copyFile nor
\* JMA_Dictionary::compile.
C20_MissingDirReturnsZero ==
    EncodedMissingDir =>
        /\ ~fatal
        /\ last.ret = 0
        /\ last.steps = <<>>

\* encodeSystemDict was called with a text directory that does not exist, on a
\* system whose closedir(NULL) does not return: the process has ended in
\* isDirExist and nothing was returned
C20_Witness ==
    /\ EncodedMissingDir
    /\ ~last.arg.txtDir.exists
    /\ last.arg.sys.closedirNull = "SIGSEGV"
    /\ fatal
    /\ last.steps = <<>>

\* encodeSystemDict was called with two directories that exist
EncodedExistingDirs ==
    /\ last.op = "encodeSystemDict"
    /\ last.arg.txtDir.exists
    /\ last.arg.binDir.exists

\* the calls of the steps, in their order
StepCalls == [i \in 1..Len(last.steps) |-> last.steps[i].call]

\* C21: with both directories there, encodeSystemDict calls mecab_dict_index,
\* then copyFile for compound.def, then JMA_Dictionary::compile, then
\* removeFile for each of the four binary files.  A status of
\* mecab_dict_index that is not 0 returns 0 with nothing copied and no archive
\* assembled; a failed assembly returns 0 with no file removed; otherwise 1 is
\* returned, also when compound.def is missing or a file cannot be removed.
C21_EncodeStepsInOrder ==
    EncodedExistingDirs =>
        /\ ~fatal
        /\ last.arg.sys.index # 0 =>
               /\ last.ret = 0
               /\ last.steps = <<Step("mecab_dict_index", FALSE)>>
        /\ (last.arg.sys.index = 0 /\ ~last.arg.sys.archive) =>
               /\ last.ret = 0
               /\ StepCalls = <<"mecab_dict_index", "copyFile", "compile">>
               /\ ~last.steps[3].ok
        /\ (last.arg.sys.index = 0 /\ last.arg.sys.archive) =>
               /\ last.ret = 1
               /\ StepCalls = <<"mecab_dict_index", "copyFile", "compile",
                                "removeFile", "removeFile", "removeFile",
                                "removeFile">>
               /\ last.steps[1].ok /\ last.steps[3].ok
               /\ last.steps[2].ok = last.arg.txtDir.compound
               /\ \A i \in 4..7 : last.steps[i].ok = last.arg.sys.unlink

\* encodeSystemDict has returned 1 although compound.def is missing and the
\* binary files could not be removed
C21_Witness ==
    /\ EncodedExistingDirs
    /\ last.ret = 1
    /\ ~last.arg.txtDir.compound
    /\ ~last.arg.sys.unlink
    /\ Len(last.steps) = 7

(***************************************************************************)
(* The properties of the CSV text convertTxtToCSV writes.                  *)
(***************************************************************************)
\* the CSV text copied to the dictionary and its records
UserCsv == knowledge.dictionary_.userCsv
CsvRecords == CsvRecordsFrom(UserCsv, 1)

\* the number of places of text at which t stands
Occurrences(text, t) ==
    Cardinality({i \in 1..(Len(text) - Len(t) + 1) :
                    SubSeq(text, i, i + Len(t) - 1) = t})

\* the fields ",-1,-1,<cost>," that follow the word of a record
CostFields == <<44, 45, 49, 44, 45, 49, 44>> \o IntToStr(USER_NOUN_COST) \o <<44>>

\* the text is the records of the accepted lines and nothing else: it is
\* empty or ends with a line end, and each record holds one word with its
\* cost fields, the word of its line
OnlyAcceptedRecords ==
    /\ UserCsv = <<>> \/ UserCsv[Len(UserCsv)] = 10
    /\ \A p \in 1..Len(AllLines) :
           Form(AllLines[p]).accepted
           => /\ Occurrences(RecordOf(p), CostFields) = 1
              /\ SubSeq(RecordOf(p), 1, Len(Form(AllLines[p]).word) + Len(CostFields))
                     = Form(AllLines[p]).word \o CostFields

\* C22: the CSV text holds as many records, each ended by a line end, as the
\* entry counts returned sum to, one for each accepted line in the order of
\* the lines; a rejected line leaves no text in it and the record of the line
\* after it is that of this line alone.
C22_RejectedLinesLeaveNoText ==
    CsvStored =>
        /\ Len(CsvRecords) = Sum(last.counts)
        /\ OnlyAcceptedRecords

\* the CSV text copied to the dictionary holds a record with two words and
\* their cost fields: what a rejected line has written, followed by the record
\* of the accepted line after it
C22_Witness ==
    /\ CsvStored
    /\ Len(CsvRecords) = Sum(last.counts)
    /\ \E p \in 2..Len(AllLines) :
           /\ ~Form(AllLines[p - 1]).accepted
           /\ Form(AllLines[p - 1]).word # <<>>
           /\ Form(AllLines[p]).accepted
           /\ Occurrences(RecordOf(p), CostFields) = 2

(***************************************************************************)
(* The form of the records convertTxtToCSV writes.                         *)
(***************************************************************************)
\* the user noun POS in full, as loadDict() has found it
FullPOS == UserNounFullPOS(knowledge.posTable_.rows, knowledge.userNounPOS_).str

\* the number of components of a POS string, which commas set apart
PosSize(pos) == Occurrences(pos, <<44>>) + 1

\* n fields ",*"
StarFields(n) == Concat([i \in 1..n |-> <<44, 42>>])

\* the reading of the whole word of an accepted line: the components of its
\* reading token without the commas between them, "*" when it has none
ReadingOf(line) ==
    IF Form(line).readLine THEN WithoutCommas(Form(line).token)
    ELSE IF Form(line).withReads THEN Concat(Form(line).reads)
    ELSE <<42>>

\* word,-1,-1,<cost>,<POS>, max(0, readFormOffset - posSize) fields "*", and
\* the reading
ExpectedRecord(line) ==
    Form(line).word \o CostFields \o FullPOS
        \o StarFields(IF knowledge.readFormOffset_ > PosSize(FullPOS)
                      THEN knowledge.readFormOffset_ - PosSize(FullPOS) ELSE 0)
        \o <<44>> \o ReadingOf(line)

\* the text an accepted line has written closes its record in the expected
\* form, and is the whole record when the line is the first or follows an
\* accepted line
EmittedTextHasForm ==
    CsvStored =>
        \A p \in 1..Len(AllLines) :
            Form(AllLines[p]).accepted
            => /\ EndsWith(RecordOf(p), ExpectedRecord(AllLines[p]))
               /\ (p = 1 \/ Form(AllLines[p - 1]).accepted)
                      => RecordOf(p) = ExpectedRecord(AllLines[p])

\* C23: the record of every accepted line is word,-1,-1,-500,<user noun POS in
\* full>, then max(0, readFormOffset - posSize) fields "*", then the reading of
\* the whole word or "*".
C23_RecordForm ==
    CsvStored =>
        \A p \in 1..Len(AllLines) :
            Form(AllLines[p]).accepted => RecordOf(p) = ExpectedRecord(AllLines[p])

\* an accepted line after a rejected one has a record that ends as expected and
\* starts with what the rejected line has written
C23_Witness ==
    /\ CsvStored
    /\ \E p \in 2..Len(AllLines) :
           /\ Form(AllLines[p]).accepted
           /\ ~Form(AllLines[p - 1]).accepted
           /\ EndsWith(RecordOf(p), ExpectedRecord(AllLines[p]))
           /\ SubSeq(RecordOf(p), 1, Len(Form(AllLines[p - 1]).word) + Len(CostFields))
                  = Form(AllLines[p - 1]).word \o CostFields
           /\ Len(RecordOf(p)) > Len(ExpectedRecord(AllLines[p]))

(***************************************************************************)
(* The properties of isSentenceSeparator().                                *)
(***************************************************************************)
\* the width the active classifier reports at the start of p
WidthOf(p) == getByteCount(knowledge.ctype_, p, 1)

\* p is one character of width 1..4 under the active classifier
IsCodePoint(p) == ~WidthOf(p).fatal /\ WidthOf(p).n \in 1..4 /\ WidthOf(p).n = Len(p)

\* the big-endian packing of the bytes of the character p
PackedValue(p) == Pack(p, 1, Len(p))

\* the characters asked about
QueriedChars == {p \in SentenceQueries : IsCodePoint(p)}

\* C24: for a character c of width w with packed value v, isSentenceSeparator(c)
\* returns true after addSentenceSeparator(v), and returns true only if v is in
\* the set of width w.
C24_AddedIsRecognised ==
    /\ \A c \in QueriedChars :
           (last.op = "addSentenceSeparator" /\ last.arg = PackedValue(c))
           => /\ ~fatal
              /\ isSentenceSeparator(c, knowledge.ctype_, knowledge.seps_).ret
    /\ (last.op = "isSentenceSeparator" /\ IsCodePoint(last.arg) /\ last.ret = 1)
           => PackedValue(last.arg) \in knowledge.seps_[Len(last.arg)]

\* under the Shift-JIS classifier the packed value of the two-byte full stop has
\* been added, it is in the set of the three-byte characters, and the query
\* about the full stop has returned false
C24_Witness ==
    /\ knowledge.ctype_ = ENCODE_TYPE_SJIS
    /\ last.op = "isSentenceSeparator"
    /\ last.arg = SepStop
    /\ last.ret = 0
    /\ ~fatal
    /\ PackedValue(SepStop) \in knowledge.seps_[3]
    /\ PackedValue(SepStop) \notin knowledge.seps_[2]

\* the part of C24 that the code keeps: a query returns true exactly when the
\* packed value is in the set of the width of the character, and a one-byte
\* value added is recognised
QueryReadsSetOfWidth ==
    /\ (last.op = "isSentenceSeparator" /\ IsCodePoint(last.arg))
           => /\ ~fatal
              /\ last.ret = 1 <=> PackedValue(last.arg) \in knowledge.seps_[Len(last.arg)]
    /\ \A c \in QueriedChars :
           (last.op = "addSentenceSeparator" /\ last.arg = PackedValue(c) /\ Len(c) = 1)
           => /\ ~fatal
              /\ isSentenceSeparator(c, knowledge.ctype_, knowledge.seps_).ret

\* C26: isSentenceSeparator(p) fails no assertion when the classifier reports a
\* width from 0 to 4 at p, and returns false at the terminating null.
C26_NoAssertionUpToFour ==
    (last.op = "isSentenceSeparator" /\ ~WidthOf(last.arg).fatal
        /\ WidthOf(last.arg).n \in 0..4)
    => /\ ~fatal
       /\ last.arg = <<>> => last.ret = 0

\* the query at the terminating null has failed the assertion
C26_Witness ==
    /\ last.op = "isSentenceSeparator"
    /\ last.arg = <<>>
    /\ ~WidthOf(last.arg).fatal
    /\ WidthOf(last.arg).n = 0
    /\ fatal

(***************************************************************************)
(* The properties of createTagger() called from outside loadDict().        *)
(***************************************************************************)
\* the last call is a createTagger() with a user dictionary registered
TaggerAskedWithUserDict == last.op = "createTagger" /\ hasUserDict(knowledge)

\* C25: whenever createTagger is called with a user dictionary registered, the
\* name of the binary user dictionary in memory is not empty and the assertion
\* of createTagger does not fail.
C25_BinaryUserDictNamed ==
    TaggerAskedWithUserDict => (knowledge.binUserDic_ # "" /\ ~fatal)

\* createTagger() was called with a user dictionary registered that no
\* loadDict() has compiled: the name is empty and the assertion has failed
C25_Witness ==
    /\ TaggerAskedWithUserDict
    /\ knowledge.binUserDic_ = ""
    /\ knowledge.decompMap_ = EmptyMap
    /\ fatal

\* the part of C25 that the code keeps: after a loadDict() that has returned 1
\* with a user dictionary registered the name is not empty, and it stays so
NamedOnceCompiled ==
    /\ (last.op = "loadDict" /\ last.ret = 1 /\ hasUserDict(knowledge))
           => knowledge.binUserDic_ # ""
    /\ [][knowledge.binUserDic_ # "" => knowledge'.binUserDic_ # ""]_vars

(***************************************************************************)
(* The feature offsets after the configuration step.                       *)
(***************************************************************************)
\* the fixed default of an offset key
OffsetDefault(key) ==
    CASE key = KEY_BASE_FORM -> BASE_FORM_OFFSET_DEFAULT
      [] key = KEY_READ_FORM -> READ_FORM_OFFSET_DEFAULT
      [] OTHER -> NORM_FORM_OFFSET_DEFAULT

\* the value without the white space around it
Trimmed(value) ==
    SubSeq(value, SkipSpace(value, 1), SkipSpaceBack(value, Len(value)))

\* the text is decimal digits, at most nine, after at most one sign
IsIntegerText(text) ==
    LET digits == IF text # <<>> /\ text[1] \in {43, 45} THEN Tail(text) ELSE text
    IN  digits # <<>> /\ Len(digits) <= 9 /\ \A i \in 1..Len(digits) : IsDigit(digits[i])

\* the integer such a text writes
IntegerOf(text) ==
    IF text[1] = 45 THEN 0 - DigitsValue(text, 2, Len(text))
    ELSE IF text[1] = 43 THEN DigitsValue(text, 2, Len(text))
    ELSE DigitsValue(text, 1, Len(text))

\* C27 as stated: after the configuration step of loadDict() each offset is the
\* integer written for its key in dicrc or its default 6, 7 or 9, and a key whose
\* value does not convert to an integer yields the default.
C27_IntegerOrDefault ==
    ConfigStepDone =>
        \A key \in DOMAIN OffsetOf :
            LET c == Configured(archive.dicrc.lines, key)
            IN  /\ \/ OffsetOf[key] = OffsetDefault(key)
                   \/ /\ c.present
                      /\ IsIntegerText(Trimmed(c.value))
                      /\ OffsetOf[key] = IntegerOf(Trimmed(c.value))
                /\ (c.present /\ ~IsIntegerText(Trimmed(c.value)))
                       => OffsetOf[key] = OffsetDefault(key)

\* C27, amended: after the configuration step of loadDict() each offset is the
\* integer written for its key when a line the parser reads gives the key a
\* value that is one integer, 0 when such a line gives it any other value, and
\* the default 6, 7 or 9 when no line the parser reads holds the key.
C27_IntegerZeroOrDefault ==
    ConfigStepDone =>
        \A key \in DOMAIN OffsetOf :
            LET c == Configured(LinesRead(archive.dicrc), key)
            IN  OffsetOf[key] =
                    IF ~c.present THEN OffsetDefault(key)
                    ELSE IF IsIntegerText(Trimmed(c.value))
                    THEN IntegerOf(Trimmed(c.value))
                    ELSE 0

\* loadDict() has read a dicrc that gives the norm form offset the value "3x",
\* the read form offset "4 " and the base form offset no value: the offsets are
\* 0, 4 and 0
C27_Witness ==
    /\ ConfigStepDone
    /\ Configured(LinesRead(archive.dicrc), KEY_NORM_FORM).present
    /\ Configured(LinesRead(archive.dicrc), KEY_NORM_FORM).value = <<51, 120>>
    /\ Configured(LinesRead(archive.dicrc), KEY_BASE_FORM).value = <<>>
    /\ knowledge.normFormOffset_ = 0
    /\ knowledge.readFormOffset_ = 4
    /\ knowledge.baseFormOffset_ = 0

=============================================================================
